---- MODULE Spec2Model ----
(***************************************************************************)
(* A model of the OpenAPI spec MCP server: the two-tier cache              *)
(* (CacheManager over an LRU map and gzip files), the document acquirer    *)
(* (OpenAPIClient.fetchSpec / fetchWithRetry) and the tool-call handler    *)
(* that keeps currentSpec / currentUrl (OpenAPIMCPServer).                 *)
(*                                                                         *)
(* Time is Date.now() in milliseconds and advances in steps of MsPerSecond.*)
(* Every await that waits for the event loop (gunzip, gzip, the network,   *)
(* setTimeout, reference resolution) is a step boundary: other calls and   *)
(* the clock may move there.  Code between two such awaits is one action.  *)
(***************************************************************************)
EXTENDS Integers, Sequences, FiniteSets, TLC

\* ------------------------------------------------------------------ bounds
MaxTicks == 4          \* the clock stops after MaxTicks seconds
MaxCalls == 2          \* concurrently running calls (slots are reused)
RaceTicks == 2         \* the clock of the overlapping calls
ApiTicks == 2          \* the clock of the cache operations
ServerTicks == 3       \* the clock of the server's requests
CfgTicks == 1          \* the clock of the configuration variants
FaultTicks == 1        \* the clock of the disk faults
LiveTicks == 1         \* the time until which calls start, for termination

\* --------------------------------------------------------- configuration
MsPerSecond == 1000    \* this.ttl = ttl * 1000
CacheTtl == 2          \* configManager.cacheTtl, seconds
RetryAttempts == 3     \* retryAttempts, the default
RetryDelay == 1000     \* retryDelay, the default, ms
MaxCacheSize == 2      \* maxCacheSize, in units of SizeUnit bytes

Undefined == "undefined"
URLs == {"u1", "u2"}
FetchURLs == {"u1"}   \* the URLs of the concurrent fetchSpec calls
\* Documents an origin can serve: two that fit the memory budget together
\* only one at a time, one that never fits, and a body that does not pass
\* parseResponse / validateSpec.
Docs == {"d1", "d2", "huge"}
BadBody == "bad"
ETags == {Undefined, "e1"}
LastMods == {Undefined, "m1"}

\* JSON.stringify(entry).length, in units of the memory budget.
SizeOf(doc) == CASE doc = "d1" -> 1
                 [] doc = "d2" -> MaxCacheSize
                 [] OTHER -> MaxCacheSize + 1

Calls == 1..MaxCalls
One == {1}             \* the slot of a caller that awaits each call

\* --------------------------------------------------------------- helpers
Remove(f, k) == [x \in (DOMAIN f) \ {k} |-> f[x]]
Put(f, k, v) == [x \in (DOMAIN f) \cup {k} |-> IF x = k THEN v ELSE f[x]]
Without(s, k) == SelectSeq(s, LAMBDA x : x # k)

RECURSIVE Pow2(_)
Pow2(n) == IF n = 0 THEN 1 ELSE 2 * Pow2(n - 1)

\* ------------------------------------------------------------ CacheEntry
CacheEntry(spec, etag, lastModified, timestamp, url) ==
    [spec |-> spec, etag |-> etag, lastModified |-> lastModified,
     timestamp |-> timestamp, url |-> url]

EntryKeys == {"spec", "etag", "lastModified", "timestamp", "url"}

JsonStringifyNoEtag(entry) ==
    [k \in {x \in EntryKeys \ {"etag"} : x = "timestamp" \/ entry[x] # Undefined}
        |-> entry[k]]

\* JSON.stringify drops the properties whose value is undefined (timestamp
\* is always a number).
JsonStringify(entry) ==
    [k \in {x \in EntryKeys : x = "timestamp" \/ entry[x] # Undefined} |-> entry[k]]

\* Reading a property that the parsed object does not have gives undefined.
JsonParse(data) ==
    [k \in EntryKeys |-> IF k \in DOMAIN data THEN data[k]
                         ELSE IF k = "timestamp" THEN 0 ELSE Undefined]

\* A file of the cache directory: gzip bytes, or bytes gunzip rejects.
Gzip(data) == [gz |-> TRUE, data |-> data]
CorruptFile == [gz |-> FALSE, data |-> [url |-> "?"]]

\* getCacheKey / getDiskCachePath: one file per URL.
DiskPath(url) == <<"sha256", url, ".json.gz">>

\* ------------------------------------------------------------- LRUCache
\* The cache state is a record [mem, order, disk]:
\*   mem   : present keys -> [value, start]   (start: the entry's age origin)
\*   order : the present keys, most recently used first
\*   disk  : existing paths -> file

VARIABLES
    now,        \* Date.now()
    cfg,        \* the configuration the objects were constructed with
    cache,      \* CacheManager: [mem, order, disk]
    srv,        \* OpenAPIMCPServer: [spec, url, serving]
    calls,      \* the running calls, one record per slot
    hist        \* what has been observed so far (for the properties only)

vars == <<now, cfg, cache, srv, calls, hist>>

\* CacheManager constructor: this.ttl = ttl * 1000.
TtlMs == cfg.cacheTtl * MsPerSecond

LruSizeTotal(mem) ==
    LET RECURSIVE Sum(_)
        Sum(S) == IF S = {} THEN 0
                  ELSE LET k == CHOOSE x \in S : TRUE
                       IN SizeOf(mem[k].value.spec) + Sum(S \ {k})
    IN Sum(DOMAIN mem)

LruDelete(C, url) ==
    [C EXCEPT !.mem = Remove(C.mem, url), !.order = Without(C.order, url)]

\* An entry is stale for the LRU when its age exceeds ttl; ttl 0 means no
\* expiry in the LRU.
LruIsStale(C, url, t) ==
    /\ TtlMs > 0
    /\ t - C.mem[url].start > TtlMs

\* get with updateAgeOnGet: a stale entry is deleted and undefined is
\* returned; a live one moves to the front and its age restarts.
LruGetRefreshes(C, url, t) ==
    IF url \notin DOMAIN C.mem
    THEN [cache |-> C, value |-> Undefined, found |-> FALSE]
    ELSE IF LruIsStale(C, url, t)
    THEN [cache |-> LruDelete(C, url), value |-> Undefined, found |-> FALSE]
    ELSE [cache |-> [C EXCEPT !.mem[url].start = t,
                              !.mem[url].value.timestamp = t,
                              !.order = <<url>> \o Without(C.order, url)],
          value |-> [C.mem[url].value EXCEPT !.timestamp = t], found |-> TRUE]

LruGet(C, url, t) ==
    IF url \notin DOMAIN C.mem
    THEN [cache |-> C, value |-> Undefined, found |-> FALSE]
    ELSE IF LruIsStale(C, url, t)
    THEN [cache |-> LruDelete(C, url), value |-> Undefined, found |-> FALSE]
    ELSE [cache |-> [C EXCEPT !.mem[url].start = t,
                              !.order = <<url>> \o Without(C.order, url)],
          value |-> C.mem[url].value, found |-> TRUE]

RECURSIVE LruEvict(_)
LruEvict(C) ==
    IF LruSizeTotal(C.mem) <= MaxCacheSize THEN C
    ELSE LruEvict(LruDelete(C, C.order[Len(C.order)]))

\* set: an entry larger than maxSize is not stored (and the key is
\* deleted); otherwise it is stored at the front and the least recently
\* used entries are evicted until the total fits.
LruSet(C, url, entry, t) ==
    IF SizeOf(entry.spec) > MaxCacheSize
    THEN LruDelete(C, url)
    ELSE LruEvict([C EXCEPT !.mem = Put(C.mem, url, [value |-> entry, start |-> t]),
                            !.order = <<url>> \o Without(C.order, url)])

\* --------------------------------------------------------- CacheManager
NoEntry == CacheEntry(Undefined, Undefined, Undefined, 0, Undefined)

IsFresh(entry, t) == t - entry.timestamp < TtlMs

Unlink(C, url) == [C EXCEPT !.disk = Remove(C.disk, DiskPath(url))]

\* get, up to its await of gunzip: the memory tier, then existsSync and
\* readFileSync.  kind is "hit" (entry returned), "miss" (null returned) or
\* "read" (the file was read and gunzip is pending).
GetSync(C, url, t) ==
    LET r == LruGet(C, url, t) IN
    IF r.found /\ IsFresh(r.value, t)
    THEN [cache |-> r.cache, kind |-> "hit", entry |-> r.value, bytes |-> CorruptFile]
    ELSE LET C1 == IF r.found THEN LruDelete(r.cache, url) ELSE r.cache IN
         IF DiskPath(url) \in DOMAIN C1.disk
         THEN [cache |-> C1, kind |-> "read", entry |-> NoEntry,
               bytes |-> C1.disk[DiskPath(url)]]
         ELSE [cache |-> C1, kind |-> "miss", entry |-> NoEntry, bytes |-> CorruptFile]

\* unlinkSync of the record: ENOENT when the file is gone.  In the try
\* block the error lands in the catch block, whose own unlinkSync throws
\* again, out of get: kind "raise".
UnlinkOrRaise(C, url) ==
    IF DiskPath(url) \in DOMAIN C.disk
    THEN [cache |-> Unlink(C, url), kind |-> "miss", entry |-> NoEntry]
    ELSE [cache |-> C, kind |-> "raise", entry |-> NoEntry]

\* get, after gunzip has answered for the bytes read before the await.
GetAfterGunzip(C, url, bytes, t) ==
    IF ~bytes.gz
    THEN UnlinkOrRaise(C, url)
    ELSE LET entry == JsonParse(bytes.data) IN
         IF IsFresh(entry, t)
         THEN [cache |-> LruSet(C, url, entry, t), kind |-> "hit", entry |-> entry]
         ELSE UnlinkOrRaise(C, url)

SetSyncKeepTokens(C, url, spec, etag, lastModified, t) ==
    LET old == IF url \in DOMAIN C.mem THEN C.mem[url].value ELSE NoEntry
        entry == CacheEntry(spec, IF etag = Undefined THEN old.etag ELSE etag,
                            IF lastModified = Undefined THEN old.lastModified
                            ELSE lastModified, t, url)
    IN [cache |-> LruSet(C, url, entry, t), entry |-> entry]

\* set, up to its await of gzip: the entry is stamped and put in memory.
SetSync(C, url, spec, etag, lastModified, t) ==
    LET entry == CacheEntry(spec, etag, lastModified, t, url) IN
    [cache |-> LruSet(C, url, entry, t), entry |-> entry]

SetDiskKeepFirst(C, url, entry) ==
    IF DiskPath(url) \in DOMAIN C.disk THEN C
    ELSE [C EXCEPT !.disk = Put(C.disk, DiskPath(url), Gzip(JsonStringify(entry)))]

\* set, after gzip: writeFileSync of the compressed JSON.
SetDisk(C, url, entry) ==
    [C EXCEPT !.disk = Put(C.disk, DiskPath(url), Gzip(JsonStringify(entry)))]

InvalidateCache(C, url) ==
    LET C1 == LruDelete(C, url) IN
    IF DiskPath(url) \in DOMAIN C1.disk THEN Unlink(C1, url) ELSE C1

\* clear: the memory tier emptied, every .json.gz file unlinked.
ClearCache(C) ==
    [mem |-> [x \in {} |-> NoEntry], order |-> <<>>, disk |-> [x \in {} |-> NoEntry]]

\* getEtag and getLastModified each go through memoryCache.get.
GetEtag(C, url, t) ==
    LET r == LruGet(C, url, t) IN
    [cache |-> r.cache, value |-> IF r.found THEN r.value.etag ELSE Undefined]

GetLastModified(C, url, t) ==
    LET r == LruGet(C, url, t) IN
    [cache |-> r.cache, value |-> IF r.found THEN r.value.lastModified ELSE Undefined]

\* ------------------------------------------------------------ the origin
\* What one axios.get can end with: a response that validateStatus accepts
\* (2xx with a body, or 304 to a conditional request), or an error.
OkResponses ==
    {[status |-> 200, body |-> "d1", etag |-> "e1", lastModified |-> Undefined],
     [status |-> 200, body |-> "d2", etag |-> Undefined, lastModified |-> "m1"],
     [status |-> 200, body |-> "huge", etag |-> Undefined, lastModified |-> Undefined],
     [status |-> 200, body |-> BadBody, etag |-> Undefined, lastModified |-> Undefined]}

NotModified == [status |-> 304, body |-> "", etag |-> Undefined, lastModified |-> Undefined]
NoResponse == [status |-> 0, body |-> "", etag |-> Undefined, lastModified |-> Undefined]

ClientErrors == {"E404"}             \* error.response.status in 400..499
TransientErrors == {"E500", "ENET"}  \* a 5xx response, no response at all
NoError == "none"
ENOENT == "ENOENT"                   \* unlinkSync of a file that is gone
InvalidSpec == "EINVALID"            \* thrown by validateSpec
\* new Error(`Failed to fetch OpenAPI spec: ${error}`) carries its cause.
Failed(cause) == [wrapped |-> TRUE, error |-> cause]

\* ------------------------------------------------------------- the calls
NoCause == [wrapped |-> FALSE, error |-> NoError]
Raw(error) == [wrapped |-> FALSE, error |-> error]
Answer(kind, doc, cause) == [kind |-> kind, doc |-> doc, cause |-> cause]
NoResult == Answer("none", Undefined, NoCause)

NoServer == [spec |-> Undefined, url |-> Undefined, serving |-> FALSE]

\* One record per call.  kind is who called fetchSpec: "fetch" (a
\* collaborator), "tool" and "refresh" (the CallTool handler), "run" (the
\* initial load).  The fields after "observations" are read by the
\* properties only.
IdleCall ==
    [pc |-> "idle", kind |-> "fetch", src |-> "args", url |-> Undefined,
     force |-> FALSE, ctx |-> "init", bytes |-> CorruptFile, attempt |-> 0,
     ifNoneMatch |-> Undefined, ifModifiedSince |-> Undefined,
     resp |-> NoResponse, lastError |-> NoError, thrown |-> NoError,
     entry |-> NoEntry, wakeAt |-> 0, result |-> NoResult,
     \* observations
     nreq |-> 0,              \* axios.get calls made
     delays |-> <<>>,         \* the delays waited in the retry loop
     lastSeen |-> NoError,    \* the error of the latest failed attempt
     getStale |-> FALSE,      \* the latest get was issued on a stale entry
     getOutcome |-> "none",   \* what the latest get ended with
     getFresh |-> TRUE,       \* an entry get returned was fresh at the call
     getEvicted |-> TRUE,     \* no tier held the key when get returned absent
     getCorrupt |-> FALSE,    \* gunzip rejected the bytes the latest get read
     arg |-> Undefined,       \* args.url of the CallTool request
     diskFailed |-> FALSE,    \* the durable write of this call failed
     lapsed |-> FALSE,        \* a kept entry was past the TTL when get checked
     hadEntry |-> FALSE,      \* a tier held an entry when the fetch failed
     sentDoc |-> Undefined,   \* the document cached when the request went out
     got304 |-> FALSE,
     stored |-> NoEntry,      \* the entry this call wrote
     okResp |-> NoResponse,   \* the response whose document it wrote
     superseded |-> FALSE,    \* a forced refresh or invalidation came after
     first |-> {},            \* entries of earlier fetches, fresh at the start
     kept |-> {},             \* those the cache served at the start
     before |-> NoServer,     \* currentSpec / currentUrl at the request
     staleAtStart |-> FALSE,  \* the loaded document's entry was past the TTL
     fetched |-> FALSE]       \* the request called fetchSpec

\* A step of a call yields the new cache, server state and call record.
Out(C, S, rec) == [cache |-> C, srv |-> S, call |-> rec]

\* The locals of a frame that has returned are dropped from the record.
Finished(rec, result) ==
    [IdleCall EXCEPT !.pc = "done", !.kind = rec.kind, !.src = rec.src,
                     !.url = rec.url, !.force = rec.force,
                     !.thrown = rec.thrown, !.result = result,
                     !.nreq = rec.nreq, !.delays = rec.delays,
                     !.lastSeen = rec.lastSeen, !.getStale = rec.getStale,
                     !.getOutcome = rec.getOutcome, !.getFresh = rec.getFresh,
                     !.getEvicted = rec.getEvicted, !.lapsed = rec.lapsed,
                     !.getCorrupt = rec.getCorrupt, !.diskFailed = rec.diskFailed,
                     !.arg = rec.arg,
                     !.stored = rec.stored, !.superseded = rec.superseded,
                     !.okResp = rec.okResp,
                     !.hadEntry = rec.hadEntry, !.sentDoc = rec.sentDoc,
                     !.got304 = rec.got304, !.first = rec.first,
                     !.kept = rec.kept,
                     !.before = rec.before, !.staleAtStart = rec.staleAtStart,
                     !.fetched = rec.fetched]

LeaveRetry(rec) ==
    [rec EXCEPT !.attempt = 0, !.lastError = NoError, !.wakeAt = 0,
                !.ifNoneMatch = Undefined, !.ifModifiedSince = Undefined]

SetCurrentSpecOnly(S, doc, url) == [S EXCEPT !.spec = doc]

\* this.currentSpec = await fetchSpec(url); this.currentUrl = url;
SetCurrent(S, doc, url) == [S EXCEPT !.spec = doc, !.url = url]

\* tool.execute(args, this.currentSpec, this.currentUrl)
ExecuteTool(S) == Answer("tool", S.spec, NoCause)

\* fetchSpec returns a document: to the collaborator, or into the handler
\* that awaited it, which runs on to its answer.
FinishDoc(C, S, rec, doc) ==
    CASE rec.kind = "tool" ->
            LET S1 == SetCurrent(S, doc, rec.url) IN
            Out(C, S1, Finished(rec, ExecuteTool(S1)))
      [] rec.kind = "refresh" ->
            Out(C, SetCurrent(S, doc, rec.url),
                Finished(rec, Answer("refreshed", Undefined, NoCause)))
      [] rec.kind = "run" ->
            Out(C, [SetCurrent(S, doc, rec.url) EXCEPT !.serving = TRUE],
                Finished(rec, Answer("loaded", Undefined, NoCause)))
      [] OTHER -> Out(C, S, Finished(rec, Answer("doc", doc, NoCause)))

FinishErrUnload(C, S, rec, cause) ==
    Out(C, [S EXCEPT !.spec = Undefined, !.url = rec.url],
        Finished(rec, Answer(IF rec.kind = "refresh" THEN "refreshError" ELSE "error",
                             Undefined, cause)))

FinishErrExecutes(C, S, rec, cause) ==
    CASE rec.kind = "tool" -> Out(C, S, Finished(rec, ExecuteTool(S)))
      [] rec.kind = "refresh" ->
            Out(C, S, Finished(rec, Answer("refreshError", Undefined, cause)))
      [] rec.kind = "run" ->
            Out(C, [S EXCEPT !.serving = TRUE],
                Finished(rec, Answer("loadFailed", Undefined, cause)))
      [] OTHER -> Out(C, S, Finished(rec, Answer("error", Undefined, cause)))

FinishErrTerminal(C, S, rec, cause) ==
    Out(C, [S EXCEPT !.serving = FALSE],
        Finished(rec, Answer(CASE rec.kind = "tool" -> "loadError"
                               [] rec.kind = "refresh" -> "refreshError"
                               [] rec.kind = "run" -> "loadFailed"
                               [] OTHER -> "error", Undefined, cause)))

\* fetchSpec throws.
FinishErr(C, S, rec, cause) ==
    CASE rec.kind = "tool" ->
            Out(C, S, Finished(rec, Answer("loadError", Undefined, cause)))
      [] rec.kind = "refresh" ->
            Out(C, S, Finished(rec, Answer("refreshError", Undefined, cause)))
      [] rec.kind = "run" ->
            Out(C, [S EXCEPT !.serving = TRUE],
                Finished(rec, Answer("loadFailed", Undefined, cause)))
      [] OTHER -> Out(C, S, Finished(rec, Answer("error", Undefined, cause)))

\* What a get is issued on: some tier holds an entry for the key, and
\* every entry held is past the TTL.
HeldEntries(C, url) ==
    (IF url \in DOMAIN C.mem THEN {C.mem[url].value} ELSE {})
    \cup (IF DiskPath(url) \in DOMAIN C.disk /\ C.disk[DiskPath(url)].gz
          THEN {JsonParse(C.disk[DiskPath(url)].data)} ELSE {})

IssuedOnStale(C, url, t) ==
    /\ HeldEntries(C, url) # {}
    /\ \A e \in HeldEntries(C, url) : ~IsFresh(e, t)

GetIssued(rec, C, t) ==
    [rec EXCEPT !.getStale = IssuedOnStale(C, rec.url, t), !.getOutcome = "pending",
                !.getCorrupt = FALSE]

GetAnswered(rec, g, t) ==
    [rec EXCEPT !.getOutcome = g.kind,
                !.lapsed = \E e \in rec.kept : ~IsFresh(e, t),
                !.getFresh = IF g.kind = "hit" THEN IsFresh(g.entry, t) ELSE @,
                !.getEvicted = IF g.kind = "hit" THEN @
                               ELSE /\ rec.url \notin DOMAIN g.cache.mem
                                    /\ DiskPath(rec.url) \notin DOMAIN g.cache.disk]

\* A get of fetchSpec: the synchronous part, and where it goes from there.
\* ctx names the call site: "init" (line 28), "notmod" (line 63), "catch"
\* (line 86).
AwaitGunzip(S, rec, ctx, g) ==
    Out(g.cache, S, [rec EXCEPT !.pc = "gunzip", !.ctx = ctx, !.bytes = g.bytes])

\* catch (error): the cached version if get finds one, else the failure.
\* An error of this get itself leaves fetchSpec as it is.
AfterCatchGet(S, rec, g) ==
    CASE g.kind = "hit" -> FinishDoc(g.cache, S, rec, g.entry.spec)
      [] g.kind = "miss" -> FinishErr(g.cache, S, rec, Failed(rec.thrown))
      [] OTHER -> FinishErr(g.cache, S, rec, Raw(ENOENT))

Catch(C, S, rec, error, t) ==
    LET rec1 == [GetIssued(LeaveRetry(rec), C, t) EXCEPT
                    !.thrown = error, !.resp = NoResponse, !.entry = NoEntry,
                    !.hadEntry = (rec.url \in DOMAIN C.mem
                                  \/ DiskPath(rec.url) \in DOMAIN C.disk)]
        g == GetSync(C, rec.url, t)
    IN IF g.kind = "read" THEN AwaitGunzip(S, rec1, "catch", g)
       ELSE AfterCatchGet(S, GetAnswered(rec1, g, t), g)

\* fetchWithRetry: one axios.get of the loop.
SendAttempt(C, S, rec) ==
    Out(C, S, [rec EXCEPT !.pc = "net", !.nreq = @ + 1])

\* Exponential backoff: retryDelay * Math.pow(2, attempt).
BackoffConstant(attempt) == cfg.retryDelay
Backoff(attempt) == cfg.retryDelay * Pow2(attempt)

\* fetchSpec lines 35-58: the conditional headers from the memory tier,
\* then fetchWithRetry, whose loop may not run at all.
BeginRequest(C, S, rec, t) ==
    LET e == GetEtag(C, rec.url, t)
        m == GetLastModified(e.cache, rec.url, t)
        rec1 == [rec EXCEPT !.ifNoneMatch = e.value, !.ifModifiedSince = m.value,
                            !.attempt = 0, !.lastError = NoError,
                            !.sentDoc = IF rec.url \in DOMAIN m.cache.mem
                                        THEN m.cache.mem[rec.url].value.spec
                                        ELSE Undefined]
    IN IF 0 < cfg.retryAttempts
       THEN SendAttempt(m.cache, S, rec1)
       ELSE Catch(m.cache, S, rec1, Undefined, t)

\* fetchSpec lines 70-73: parseResponse is synchronous inside; resolving
\* the references awaits.
ParseResponse(C, S, rec) ==
    Out(C, S, [rec EXCEPT !.pc = "resolve"])

AfterInitGetAlwaysFetch(S, rec, g, t) ==
    IF g.kind = "raise" THEN FinishErr(g.cache, S, rec, Raw(ENOENT))
    ELSE BeginRequest(g.cache, S, rec, t)

AfterInitGet(S, rec, g, t) ==
    CASE g.kind = "hit" -> FinishDoc(g.cache, S, rec, g.entry.spec)
      [] g.kind = "miss" -> BeginRequest(g.cache, S, rec, t)
      [] OTHER -> FinishErr(g.cache, S, rec, Raw(ENOENT))

AfterNotModifiedGet(S, rec, g, t) ==
    CASE g.kind = "hit" -> FinishDoc(g.cache, S, rec, g.entry.spec)
      [] g.kind = "miss" -> ParseResponse(g.cache, S, rec)
      [] OTHER -> Catch(g.cache, S, rec, ENOENT, t)

\* fetchSpec, from its call to its first await.
FetchSpec(C, S, rec, t) ==
    IF ~rec.force
    THEN LET g == GetSync(C, rec.url, t)
             rec1 == GetIssued(rec, C, t)
         IN IF g.kind = "read" THEN AwaitGunzip(S, rec1, "init", g)
            ELSE AfterInitGet(S, GetAnswered(rec1, g, t), g, t)
    ELSE BeginRequest(C, S, rec, t)

\* gunzip answers: the rest of get, then the caller's continuation.
GunzipDone(C, S, rec, t) ==
    LET g == GetAfterGunzip(C, rec.url, rec.bytes, t)
        rec1 == [GetAnswered(rec, g, t) EXCEPT !.bytes = CorruptFile,
                                               !.getCorrupt = ~rec.bytes.gz]
    IN CASE rec.ctx = "init" -> AfterInitGet(S, rec1, g, t)
         [] rec.ctx = "notmod" -> AfterNotModifiedGet(S, rec1, g, t)
         [] OTHER -> AfterCatchGet(S, rec1, g)

\* axios.get resolves: fetchWithRetry returns the response to fetchSpec.
OnResponse(C, S, rec, response, t) ==
    LET rec1 == [LeaveRetry(rec) EXCEPT !.resp = response, !.delays = <<>>,
                                        !.lastSeen = NoError,
                                        !.got304 = (response.status = 304)] IN
    IF response.status = 304
    THEN LET g == GetSync(C, rec.url, t)
             rec2 == GetIssued(rec1, C, t)
         IN IF g.kind = "read" THEN AwaitGunzip(S, rec2, "notmod", g)
            ELSE AfterNotModifiedGet(S, GetAnswered(rec2, g, t), g, t)
    ELSE ParseResponse(C, S, rec1)

OnRequestErrorRetryAll(C, S, rec, error, t) ==
    LET rec1 == [rec EXCEPT !.lastError = error, !.lastSeen = error] IN
    IF rec.attempt < cfg.retryAttempts - 1
    THEN LET d == Backoff(rec.attempt) IN
         Out(C, S, [rec1 EXCEPT !.pc = "delay", !.wakeAt = t + d,
                                !.delays = Append(@, d)])
    ELSE Catch(C, S, rec1, rec1.lastError, t)

\* axios.get rejects: the catch block of the retry loop.
OnRequestError(C, S, rec, error, t) ==
    LET rec1 == [rec EXCEPT !.lastError = error, !.lastSeen = error] IN
    IF error \in ClientErrors
    THEN Catch(C, S, rec1, error, t)
    ELSE IF rec.attempt < cfg.retryAttempts - 1
    THEN LET d == Backoff(rec.attempt) IN
         Out(C, S, [rec1 EXCEPT !.pc = "delay", !.wakeAt = t + d,
                                !.delays = Append(@, d)])
    ELSE \* attempt++ ends the loop: throw lastError
         Catch(C, S, rec1, rec1.lastError, t)

\* The timer fires: attempt++ and the next axios.get.
DelayDoneSameAttempt(C, S, rec) ==
    SendAttempt(C, S, [rec EXCEPT !.wakeAt = 0])

DelayDone(C, S, rec) ==
    SendAttempt(C, S, [rec EXCEPT !.attempt = @ + 1, !.wakeAt = 0])

\* validateSpec: a document passes, any other body throws.
ValidateSpec(body) == body \in Docs

\* Reference resolution has answered: validateSpec, then set up to gzip.
ResolveDone(C, S, rec, t) ==
    IF ~ValidateSpec(rec.resp.body)
    THEN Catch(C, S, rec, InvalidSpec, t)
    ELSE LET w == SetSync(C, rec.url, rec.resp.body, rec.resp.etag,
                          rec.resp.lastModified, t)
         IN Out(w.cache, S, [rec EXCEPT !.pc = "gzip", !.entry = w.entry,
                                        !.stored = w.entry, !.okResp = rec.resp,
                                        !.resp = NoResponse])

\* gzip has answered: the durable write, and fetchSpec returns the document.
GzipDone(C, S, rec) ==
    FinishDoc(SetDisk(C, rec.url, rec.entry), S, rec, rec.entry.spec)

GzipFailedThrows(C, S, rec) ==
    FinishErr(C, S, [rec EXCEPT !.diskFailed = TRUE], Raw("EIO"))

\* gzip or writeFileSync has failed: set logs it and returns, and fetchSpec
\* returns the document.
GzipFailed(C, S, rec) ==
    FinishDoc(C, S, [rec EXCEPT !.diskFailed = TRUE], rec.entry.spec)

\* ---------------------------------------------------------------- steps
EmptyMap == [x \in {} |-> NoEntry]
EmptyCache == [mem |-> EmptyMap, order |-> <<>>, disk |-> EmptyMap]

\* ConfigSchema defaults; the TTL is scaled down with the clock.
Config == [cacheTtl |-> CacheTtl, retryAttempts |-> RetryAttempts,
           retryDelay |-> RetryDelay, openApiUrl |-> Undefined]

\* The latest operation made directly on the CacheManager.
NoOp == [op |-> "none", url |-> Undefined, entry |-> NoEntry, at |-> 0,
         kind |-> "none", tier |-> "none", after |-> NoEntry]

InitWith(config) ==
    /\ now = 0
    /\ cfg = config
    /\ cache = EmptyCache
    /\ srv = NoServer
    /\ calls = [c \in Calls |-> IdleCall]
    /\ hist = NoOp

\* The entries of completed, not forced fetches of the URL that went to the
\* network and stored their result, still within the TTL at time t.
EarlierFetches(c, url, t) ==
    {calls[a].stored : a \in {x \in Calls \ {c} :
        /\ calls[x].pc = "done" /\ calls[x].url = url /\ ~calls[x].force
        /\ calls[x].result.kind = "doc" /\ calls[x].nreq >= 1
        /\ calls[x].stored # NoEntry /\ ~calls[x].superseded
        /\ t - calls[x].stored.timestamp < TtlMs}}

\* The entry a get of the URL would look at is e.
Serves(C, url, e) ==
    IF url \in DOMAIN C.mem THEN C.mem[url].value = e
    ELSE /\ DiskPath(url) \in DOMAIN C.disk
         /\ C.disk[DiskPath(url)] = Gzip(JsonStringify(e))

\* Some tier holds an entry of the URL, and every entry held is older
\* than the TTL.
Expired(C, url, t) ==
    /\ HeldEntries(C, url) # {}
    /\ \A e \in HeldEntries(C, url) : t - e.timestamp > TtlMs

Observed(c, rec) ==
    [rec EXCEPT !.first = IF rec.force THEN {} ELSE EarlierFetches(c, rec.url, now),
                !.kept = IF rec.force THEN {}
                         ELSE {e \in EarlierFetches(c, rec.url, now) :
                                 Serves(cache, rec.url, e)},
                !.before = srv,
                !.staleAtStart = (srv.url # Undefined /\ Expired(cache, srv.url, now)),
                !.fetched = TRUE]

Apply(c, out) ==
    /\ cache' = out.cache
    /\ srv' = out.srv
    /\ calls' = [calls EXCEPT ![c] = out.call]

\* A call of fetchSpec begins in the first free slot.
Begin(c, rec) ==
    /\ calls[c].pc = "idle"
    /\ \A b \in Calls : b < c => calls[b].pc # "idle"
    /\ LET out == FetchSpec(cache, srv, Observed(c, rec), now) IN
       /\ cache' = out.cache
       /\ srv' = out.srv
       /\ calls' = [b \in Calls |->
                     IF b = c THEN out.call
                     ELSE IF rec.force /\ calls[b].pc # "idle"
                          THEN [calls[b] EXCEPT !.superseded = TRUE]
                          ELSE calls[b]]
    /\ UNCHANGED <<now, cfg, hist>>

\* A request answered without a call of fetchSpec.
AnswerNow(c, kind, argUrl, result) ==
    /\ calls[c].pc = "idle"
    /\ \A b \in Calls : b < c => calls[b].pc # "idle"
    /\ calls' = [calls EXCEPT ![c] =
                    [Finished([Observed(c, [IdleCall EXCEPT !.kind = kind,
                                                            !.arg = argUrl])
                                 EXCEPT !.fetched = FALSE], result)
                       EXCEPT !.first = {}, !.kept = {}]]
    /\ UNCHANGED <<now, cfg, cache, srv, hist>>

\* A collaborator calls fetchSpec(url, forceRefresh).
StartFetch(c, url, force) ==
    Begin(c, [IdleCall EXCEPT !.kind = "fetch", !.url = url, !.force = force])

GunzipAnswers(c) ==
    /\ calls[c].pc = "gunzip"
    /\ Apply(c, GunzipDone(cache, srv, calls[c], now))
    /\ UNCHANGED <<now, cfg, hist>>

Respond(c, response) ==
    /\ calls[c].pc = "net"
    /\ Apply(c, OnResponse(cache, srv, calls[c], response, now))
    /\ UNCHANGED <<now, cfg, hist>>

\* The origin answers 304 only to a conditional request.
RespondNotModified(c) ==
    /\ calls[c].pc = "net"
    /\ calls[c].ifNoneMatch # Undefined \/ calls[c].ifModifiedSince # Undefined
    /\ Apply(c, OnResponse(cache, srv, calls[c], NotModified, now))
    /\ UNCHANGED <<now, cfg, hist>>

RequestFails(c, error) ==
    /\ calls[c].pc = "net"
    /\ Apply(c, OnRequestError(cache, srv, calls[c], error, now))
    /\ UNCHANGED <<now, cfg, hist>>

TimerFires(c) ==
    /\ calls[c].pc = "delay"
    /\ now >= calls[c].wakeAt
    /\ Apply(c, DelayDone(cache, srv, calls[c]))
    /\ UNCHANGED <<now, cfg, hist>>

ReferencesResolved(c) ==
    /\ calls[c].pc = "resolve"
    /\ Apply(c, ResolveDone(cache, srv, calls[c], now))
    /\ UNCHANGED <<now, cfg, hist>>

GzipAnswers(c) ==
    /\ calls[c].pc = "gzip"
    /\ Apply(c, GzipDone(cache, srv, calls[c]))
    /\ UNCHANGED <<now, cfg, hist>>

\* The caller has its answer; the slot is free again.
Return(c) ==
    /\ calls[c].pc = "done"
    /\ calls' = [calls EXCEPT ![c] = IdleCall]
    /\ UNCHANGED <<now, cfg, cache, srv, hist>>

Tick(bound) ==
    /\ now < bound * MsPerSecond
    /\ now' = now + MsPerSecond
    /\ UNCHANGED <<cfg, cache, srv, calls, hist>>

\* The steps of a call of fetchSpec between its start and its end.
Progress(c, responses, errors) ==
    \/ GunzipAnswers(c)
    \/ \E response \in responses : Respond(c, response)
    \/ RespondNotModified(c)
    \/ \E error \in errors : RequestFails(c, error)
    \/ ReferencesResolved(c)
    \/ GzipAnswers(c)
    \/ Return(c)

\* ---------------------------------------------- overlapping fetchSpec
\* Two callers of fetchSpec for one URL, their awaits interleaved.  The
\* retry loop is held to one attempt; the retry policy has its own
\* specification below.
RaceConfig == [Config EXCEPT !.retryAttempts = 1]

RaceResponses == {r \in OkResponses : r.body \in Docs}
RaceErrors == {"E500"}

Init == InitWith(RaceConfig)

Next ==
    \/ \E c \in Calls, url \in FetchURLs, force \in BOOLEAN : StartFetch(c, url, force)
    \/ \E c \in Calls : Progress(c, RaceResponses, RaceErrors)
    \/ Tick(RaceTicks)

Spec == Init /\ [][Next]_vars

\* The server's requests, one handled at a time; one attempt per fetch,
\* as above.
ServerConfig == RaceConfig
Handlers == One
ServerResponses == {r \in OkResponses : r.body \in {"d1", "d2"}}
ServerErrors == {"E500"}

\* ------------------------------------------------- one fetchSpec at a time
\* A single caller, the configured retry policy, timers included.
InitSeq == InitWith(Config)

NextSeq ==
    \/ \E c \in One, url \in FetchURLs, force \in BOOLEAN : StartFetch(c, url, force)
    \/ \E c \in One : Progress(c, OkResponses, ClientErrors \cup TransientErrors)
    \/ \E c \in One : TimerFires(c)
    \/ Tick(MaxTicks)

SpecSeq == InitSeq /\ [][NextSeq]_vars

\* The same caller under fair scheduling: every pending await is answered,
\* and the clock runs on as long as a timer of the retry loop is pending.
\* Calls start until LiveTicks.
TickLive ==
    /\ \/ now < LiveTicks * MsPerSecond
       \/ \E c \in One : calls[c].pc = "delay" /\ now < calls[c].wakeAt
    /\ now' = now + MsPerSecond
    /\ UNCHANGED <<cfg, cache, srv, calls, hist>>

StartLive(c, url, force) ==
    /\ now <= LiveTicks * MsPerSecond
    /\ StartFetch(c, url, force)

Step(c) ==
    \/ Progress(c, OkResponses, ClientErrors \cup TransientErrors)
    \/ TimerFires(c)

NextLive ==
    \/ \E c \in One, url \in FetchURLs, force \in BOOLEAN : StartLive(c, url, force)
    \/ \E c \in One : Step(c)
    \/ TickLive

SpecLive ==
    /\ InitSeq /\ [][NextLive]_vars
    /\ WF_vars(TickLive)
    /\ \A c \in One : WF_vars(Step(c))

\* C39 (every fetchSpec call eventually completes): under fair scheduling
\* every call that has started ends, with a document or with a failure,
\* and it never makes more than retryAttempts requests on the way.
C39_EveryCallCompletes ==
    /\ \A c \in One : (calls[c].pc # "idle") ~> (calls[c].pc = "done")
    /\ [](\A c \in One : calls[c].nreq <= cfg.retryAttempts)

\* A call has ended in failure after all its attempts and both delays.
C39_Witness ==
    \E c \in One :
        /\ calls[c].pc = "done" /\ calls[c].result.kind = "error"
        /\ calls[c].nreq = cfg.retryAttempts
        /\ Len(calls[c].delays) = cfg.retryAttempts - 1
        /\ now > LiveTicks * MsPerSecond

\* ---------------------------------------------- the CacheManager alone
\* One client of the cache, each operation awaited before the next.
CacheSet(C, url, spec, etag, lastModified, t) ==
    LET w == SetSync(C, url, spec, etag, lastModified, t) IN
    [cache |-> SetDisk(w.cache, url, w.entry), entry |-> w.entry]

CacheGet(C, url, t) ==
    LET g == GetSync(C, url, t) IN
    IF g.kind = "read"
    THEN LET h == GetAfterGunzip(g.cache, url, g.bytes, t) IN
         [cache |-> h.cache, kind |-> h.kind, entry |-> h.entry, tier |-> "disk"]
    ELSE [cache |-> g.cache, kind |-> g.kind, entry |-> g.entry, tier |-> "memory"]

ApiSet(url, spec, etag, lastModified) ==
    /\ LET w == CacheSet(cache, url, spec, etag, lastModified, now) IN
       /\ cache' = w.cache
       /\ hist' = [NoOp EXCEPT !.op = "set", !.url = url, !.entry = w.entry,
                            !.at = now]
    /\ UNCHANGED <<now, cfg, srv, calls>>

ApiGet(url) ==
    /\ LET g == CacheGet(cache, url, now) IN
       /\ cache' = g.cache
       /\ hist' = [op |-> "get", url |-> url, entry |-> g.entry, at |-> now,
                   kind |-> g.kind, tier |-> g.tier,
                   after |-> IF hist.op = "set" /\ hist.url = url /\ hist.at = now
                             THEN hist.entry ELSE NoEntry]
    /\ UNCHANGED <<now, cfg, srv, calls>>

ApiInvalidate(url) ==
    /\ cache' = InvalidateCache(cache, url)
    /\ hist' = [NoOp EXCEPT !.op = "invalidate", !.url = url, !.at = now]
    /\ UNCHANGED <<now, cfg, srv, calls>>

ApiClear ==
    /\ cache' = ClearCache(cache)
    /\ hist' = [NoOp EXCEPT !.op = "clear", !.at = now]
    /\ UNCHANGED <<now, cfg, srv, calls>>

InitApi == InitWith(Config)

NextApi ==
    \/ \E url \in URLs, spec \in Docs, etag \in ETags, lastModified \in LastMods :
          ApiSet(url, spec, etag, lastModified)
    \/ \E url \in URLs : ApiGet(url)
    \/ \E url \in URLs : ApiInvalidate(url)
    \/ ApiClear
    \/ Tick(ApiTicks)

SpecApi == InitApi /\ [][NextApi]_vars

\* The latest operation is a get that returned an entry.
SuccessfulGet(h) == h.op = "get" /\ h.kind = "hit"

\* C27 (a read does not extend expiry): a get that returns an entry leaves
\* the durable tier as it was, leaves the value the memory tier held for
\* every key it still holds, and what the memory tier holds for the key
\* afterwards is the entry returned, which one of the tiers held before
\* with the same storedAt, document and tokens; and the entry a get
\* returns was written less than ttl before the get, however often it was
\* read in between.
C27_ReadKeepsExpiry ==
    /\ [][SuccessfulGet(hist') =>
            /\ cache'.disk = cache.disk
            /\ \A url \in DOMAIN cache'.mem :
                  IF url \in DOMAIN cache.mem
                  THEN cache'.mem[url].value = cache.mem[url].value
                  ELSE /\ url = hist'.url
                       /\ cache'.mem[url].value = hist'.entry
            /\ hist'.url \in DOMAIN cache.mem =>
                  /\ hist'.url \in DOMAIN cache'.mem
                  /\ cache.mem[hist'.url].value = hist'.entry
            /\ hist'.entry \in HeldEntries(cache, hist'.url)]_vars
    /\ [](SuccessfulGet(hist) => hist.at - hist.entry.timestamp < TtlMs)
    /\ [][\A url \in URLs :
            (/\ HeldEntries(cache, url) # {}
             /\ \A e \in HeldEntries(cache, url) : now - e.timestamp >= TtlMs
             /\ hist'.op = "get" /\ hist'.url = url /\ hist'.at = now
             /\ hist' # hist)
            => (hist'.kind = "miss" /\ HeldEntries(cache', url) = {})]_vars

\* An entry written a second ago was read from the memory tier: its
\* recency is that of the read, its storedAt that of the write.
C27_Witness ==
    /\ SuccessfulGet(hist) /\ hist.tier = "memory"
    /\ hist.at = hist.entry.timestamp + MsPerSecond
    /\ hist.url \in DOMAIN cache.mem
    /\ cache.mem[hist.url].start = hist.at
    /\ cache.mem[hist.url].value.timestamp < hist.at
    /\ JsonParse(cache.disk[DiskPath(hist.url)].data).timestamp < hist.at

Run(c) ==
    /\ ~srv.serving
    /\ \A b \in Calls : calls[b].pc = "idle"
    /\ IF cfg.openApiUrl # Undefined
       THEN Begin(c, [IdleCall EXCEPT !.kind = "run", !.src = "config",
                                      !.url = cfg.openApiUrl])
       ELSE /\ c = 1
            /\ srv' = [srv EXCEPT !.serving = TRUE]
            /\ UNCHANGED <<now, cfg, cache, calls, hist>>

\* A CallTool request for a tool of toolsRequiringSpec.
ToolRequest(c, argUrl) ==
    /\ srv.serving
    /\ IF srv.spec # Undefined
       THEN AnswerNow(c, "tool", argUrl, ExecuteTool(srv))
       ELSE IF argUrl # Undefined
       THEN Begin(c, [IdleCall EXCEPT !.kind = "tool", !.src = "args", !.url = argUrl,
                                      !.arg = argUrl])
       ELSE IF cfg.openApiUrl # Undefined
       THEN Begin(c, [IdleCall EXCEPT !.kind = "tool", !.src = "config",
                                      !.url = cfg.openApiUrl])
       ELSE AnswerNow(c, "tool", argUrl, Answer("noSpec", Undefined, NoCause))

\* The URL refresh_spec uses: args.url, else currentUrl, else the
\* configured one.
RefreshUrl(S, argUrl) ==
    IF argUrl # Undefined THEN argUrl
    ELSE IF S.url # Undefined THEN S.url
    ELSE cfg.openApiUrl

\* A CallTool request for refresh_spec: refreshSpec(url) is
\* fetchSpec(url, true).
RefreshRequest(c, argUrl) ==
    /\ srv.serving
    /\ IF RefreshUrl(srv, argUrl) = Undefined
       THEN AnswerNow(c, "refresh", argUrl, Answer("noUrl", Undefined, NoCause))
       ELSE Begin(c, [IdleCall EXCEPT !.kind = "refresh", !.force = TRUE,
                         !.src = IF argUrl # Undefined THEN "args" ELSE "config",
                         !.url = RefreshUrl(srv, argUrl)])

ArgUrls == {Undefined, "u2"}

InitServer ==
    \E url \in {Undefined, "u1"} : InitWith([ServerConfig EXCEPT !.openApiUrl = url])

NextServer ==
    \/ \E c \in Handlers : Run(c)
    \/ \E c \in Handlers, argUrl \in ArgUrls : ToolRequest(c, argUrl)
    \/ \E c \in Handlers, argUrl \in ArgUrls : RefreshRequest(c, argUrl)
    \/ \E c \in Handlers : Progress(c, ServerResponses, ServerErrors)
    \/ Tick(ServerTicks)

SpecServer == InitServer /\ [][NextServer]_vars

\* Overlapping requests: a second CallTool request is handled while the
\* first one awaits its fetch.  The clock stands still.
NextOverlap ==
    \/ \E c \in Calls : Run(c)
    \/ \E c \in Calls, argUrl \in ArgUrls : ToolRequest(c, argUrl)
    \/ \E c \in Calls, argUrl \in ArgUrls : RefreshRequest(c, argUrl)
    \/ \E c \in Calls : Progress(c, ServerResponses, ServerErrors)

SpecOverlap == InitServer /\ [][NextOverlap]_vars

\* Call c ends in this step, its fetchSpec having returned a document.
FetchReturns(c) ==
    /\ calls[c].pc \notin {"idle", "done"} \/ calls'[c].before = srv
    /\ calls'[c].pc = "done" /\ calls'[c].fetched
    /\ calls'[c].result.kind \in {"tool", "refreshed", "loaded"}

\* The documents fetchSpec can return to call c in this step: the body of
\* the response it stored, or the document of an entry held for its URL.
ReturnedDocs(c) ==
    (IF calls'[c].okResp # NoResponse THEN {calls'[c].okResp.body} ELSE {})
    \cup {e.spec : e \in HeldEntries(cache, calls'[c].url)
                        \cup HeldEntries(cache', calls'[c].url)}

\* C35 (currentSpec and currentUrl stay paired): in every state of the
\* server, overlapping requests included, currentSpec and currentUrl are
\* both unset or both set, and every step that changes one of them is the
\* end of a request whose fetchSpec returned, for the URL that becomes
\* currentUrl, the document that becomes currentSpec.
C35_SpecAndUrlPaired ==
    /\ [](srv.spec = Undefined <=> srv.url = Undefined)
    /\ [][(srv'.spec # srv.spec \/ srv'.url # srv.url) =>
            \E c \in Calls :
                /\ FetchReturns(c)
                /\ srv'.url = calls'[c].url
                /\ srv'.spec \in ReturnedDocs(c)]_vars

\* Two tool requests that both found no document loaded, one loading the
\* configured URL and one the URL of its argument, have both been answered.
C35_Witness ==
    \E b, c \in Calls :
        /\ calls[b].pc = "done" /\ calls[c].pc = "done"
        /\ calls[b].kind = "tool" /\ calls[c].kind = "tool"
        /\ calls[b].before.spec = Undefined /\ calls[c].before.spec = Undefined
        /\ calls[b].result.kind = "tool" /\ calls[c].result.kind = "tool"
        /\ calls[b].url = "u1" /\ calls[c].url = "u2"
        /\ srv.url = "u1" /\ srv.spec = calls[b].result.doc
        /\ calls[b].result.doc # calls[c].result.doc

\* C36 (only refresh_spec replaces a loaded document), as stated, for
\* overlapping requests as for single ones: a tool request made
\* when a document is loaded performs no fetch and is answered from that
\* document, also when its url argument differs from currentUrl; the step
\* that answers it leaves currentSpec, currentUrl and the cache as they
\* were; a loaded currentSpec never becomes unset; and every step that
\* replaces a loaded document or its URL is the end of a refresh_spec
\* request.
C36_OnlyRefreshReplaces ==
    /\ [](\A c \in Calls :
            (/\ calls[c].pc = "done" /\ calls[c].kind = "tool"
             /\ calls[c].before.spec # Undefined) =>
                /\ ~calls[c].fetched /\ calls[c].nreq = 0
                /\ calls[c].result = Answer("tool", calls[c].before.spec, NoCause))
    /\ [][\A c \in Calls :
            (/\ calls[c].pc = "idle" /\ calls'[c].pc = "done"
             /\ calls'[c].kind = "tool" /\ srv.spec # Undefined) =>
                (srv' = srv /\ cache' = cache)]_vars
    /\ [][srv.spec # Undefined => srv'.spec # Undefined]_vars
    /\ [][(srv.spec # Undefined /\ (srv'.spec # srv.spec \/ srv'.url # srv.url)) =>
            \E c \in Calls :
                /\ calls[c].pc # "done" /\ calls'[c].pc = "done"
                /\ calls'[c].kind = "refresh"]_vars

\* C37 (refresh_spec reports success only for a real refresh), as stated:
\* a refresh_spec request answered with 'refreshed successfully' has,
\* within the request, stored the document of a successful response or
\* received 'not modified' for the document held.
C37_SuccessMeansRefreshed ==
    \A c \in Calls :
        (/\ calls[c].pc = "done" /\ calls[c].kind = "refresh"
         /\ calls[c].result.kind = "refreshed") =>
            \/ calls[c].okResp # NoResponse
            \/ calls[c].got304

\* C25 (a tool that requires a document is never executed without one):
\* a request for such a tool ends with the tool executed on a document,
\* with a load error or with 'no specification loaded'.  When a document
\* is loaded the tool runs on it without a fetch; when none is, the
\* document is fetched from args.url if given, else from the configured
\* URL, and the tool runs exactly when that fetch returned; with no URL
\* nothing is fetched and the tool does not run.
C25_NoToolWithoutDocument ==
    \A c \in Calls :
        (calls[c].pc = "done" /\ calls[c].kind = "tool") =>
            LET r == calls[c] IN
            /\ r.result.kind \in {"tool", "loadError", "noSpec"}
            /\ r.result.kind = "tool" => r.result.doc \in Docs
            /\ r.before.spec # Undefined =>
                  ~r.fetched /\ r.result = Answer("tool", r.before.spec, NoCause)
            /\ r.before.spec = Undefined =>
                  /\ r.arg # Undefined => r.fetched /\ r.url = r.arg
                  /\ (r.arg = Undefined /\ cfg.openApiUrl # Undefined) =>
                        r.fetched /\ r.url = cfg.openApiUrl
                  /\ (r.arg = Undefined /\ cfg.openApiUrl = Undefined) =>
                        ~r.fetched /\ r.result.kind = "noSpec"
                  /\ r.fetched => r.result.kind \in {"tool", "loadError"}
                  /\ r.result.kind = "tool" => srv.spec = r.result.doc

\* With no document loaded, a tool request named a URL whose fetch failed
\* and was answered with the load error.
C25_Witness ==
    \E c \in Calls :
        /\ calls[c].pc = "done" /\ calls[c].kind = "tool"
        /\ calls[c].before.spec = Undefined /\ calls[c].arg = "u2"
        /\ calls[c].result.kind = "loadError"
        /\ srv.spec = Undefined

Returned(c, doc) == calls[c].result = Answer("doc", doc, NoCause)

FailedRefresh(c) ==
    /\ calls[c].pc = "done" /\ calls[c].kind = "refresh"
    /\ calls[c].result.kind = "refreshError"
    /\ calls[c].before.spec # Undefined

\* C9 (a failed refresh from Loaded stays Loaded): no step of a refresh
\* request other than its successful end changes currentSpec or
\* currentUrl; after a refresh that failed while a document was loaded
\* both are what they were at the request and the server still serves;
\* and a tool request made while a document is loaded is answered from
\* that document.
C9_FailedRefreshStaysLoaded ==
    /\ [][\A c \in Calls :
            (/\ calls'[c] # calls[c] /\ calls'[c].pc # "idle"
             /\ calls'[c].kind = "refresh"
             /\ calls'[c].result.kind # "refreshed") => srv' = srv]_vars
    /\ [](\A c \in Calls :
            FailedRefresh(c) =>
                /\ srv.spec = calls[c].before.spec
                /\ srv.url = calls[c].before.url
                /\ srv.serving)
    /\ [](\A c \in Calls :
            (/\ calls[c].pc = "done" /\ calls[c].kind = "tool"
             /\ calls[c].before.spec # Undefined) =>
                calls[c].result = Answer("tool", calls[c].before.spec, NoCause))

\* A refresh of another URL than the loaded one has failed.
C9_Witness ==
    \E c \in Calls :
        /\ FailedRefresh(c)
        /\ calls[c].url # calls[c].before.url
        /\ srv = calls[c].before

\* C10 (TTL expiry moves Loaded back to Loading), as stated: a tool request
\* made while a document is loaded whose cache entry is older than the
\* TTL calls fetchSpec.
C10_ExpiryReloads ==
    \A c \in Calls :
        (/\ calls[c].pc = "done" /\ calls[c].kind = "tool"
         /\ calls[c].before.spec # Undefined
         /\ calls[c].staleAtStart) => calls[c].fetched

AcquisitionFailure(c) ==
    /\ calls[c].pc = "done"
    /\ calls[c].result.kind \in {"loadError", "refreshError"}

\* C11 (one failure path), as stated: a request is answered with an
\* acquisition failure only when no document was loaded at the request.
C11_FailureOnlyFromUnloaded ==
    \A c \in Calls : AcquisitionFailure(c) => calls[c].before.spec = Undefined

\* C11, amended: a request is answered with an acquisition failure after
\* a failed load from Unloaded or after a failed refresh_spec, loaded or
\* not; the failure leaves currentSpec and currentUrl as they were and the
\* server serving, and there is no terminal state: every later tool request
\* made with no document loaded and a URL at hand calls fetchSpec again.
C11_FailureAnswers ==
    \A c \in Calls :
        /\ AcquisitionFailure(c) =>
              /\ calls[c].fetched
              /\ srv.spec = calls[c].before.spec
              /\ srv.url = calls[c].before.url
              /\ srv.serving
              /\ calls[c].result.kind = "loadError" => calls[c].before.spec = Undefined
        /\ (/\ calls[c].pc = "done" /\ calls[c].kind = "tool"
            /\ calls[c].before.spec = Undefined) =>
              \/ calls[c].fetched
              \/ /\ calls[c].result.kind = "noSpec"
                 /\ cfg.openApiUrl = Undefined

\* A load from Unloaded has failed, and the server still serves, unloaded.
C11_Witness ==
    \E c \in Calls :
        /\ AcquisitionFailure(c)
        /\ calls[c].result.kind = "loadError"
        /\ calls[c].before.serving /\ srv.serving
        /\ srv.spec = Undefined

\* ------------------------------------------------------ the retry policy
InRetryLoop(c) == calls[c].pc \in {"net", "delay"}

ExhaustedRetries(c) ==
    /\ calls[c].thrown \in TransientErrors
    /\ calls[c].nreq = cfg.retryAttempts

DelaysDouble(c) ==
    /\ \A k \in 1..Len(calls[c].delays) :
          calls[c].delays[k] = cfg.retryDelay * Pow2(k - 1)
    /\ \A j, k \in 1..Len(calls[c].delays) :
          j < k => calls[c].delays[j] < calls[c].delays[k]

\* C4 (retry policy): a call never makes more than retryAttempts requests;
\* the delay waited before attempt k+1 is retryDelay * 2^k, so the delays
\* grow strictly; the next request leaves only when its timer is due; and
\* a call whose attempts all failed transiently has made exactly
\* retryAttempts requests, has waited no delay after the last of them, and
\* throws the error of its last attempt.
C4_RetryPolicy ==
    /\ [](\A c \in Calls :
            /\ calls[c].nreq <= cfg.retryAttempts
            /\ DelaysDouble(c)
            /\ calls[c].pc = "net" => Len(calls[c].delays) = calls[c].nreq - 1
            /\ calls[c].pc = "delay" =>
                  /\ Len(calls[c].delays) = calls[c].nreq
                  /\ calls[c].nreq < cfg.retryAttempts
                  /\ calls[c].wakeAt - calls[c].delays[Len(calls[c].delays)] <= now
            /\ calls[c].thrown \in TransientErrors =>
                  /\ calls[c].nreq = cfg.retryAttempts
                  /\ Len(calls[c].delays) = cfg.retryAttempts - 1
                  /\ calls[c].thrown = calls[c].lastSeen)
    /\ [][\A c \in Calls :
            (calls[c].pc = "delay" /\ calls'[c].pc = "net") =>
                now >= calls[c].wakeAt]_vars

C4_Witness ==
    \E c \in Calls :
        /\ ExhaustedRetries(c)
        /\ Len(calls[c].delays) = cfg.retryAttempts - 1
        /\ cfg.retryAttempts >= 3
        /\ calls[c].pc = "done"

\* C5 (client errors are never retried): the step on which an attempt is
\* answered with a 4xx error makes no request and starts no delay, and
\* leaves the retry loop with that error thrown, in the same instant; no
\* call is in the retry loop after a 4xx answer.
C5_ClientErrorsNotRetried ==
    /\ [](\A c \in Calls : InRetryLoop(c) => calls[c].lastSeen \notin ClientErrors)
    /\ [][\A c \in Calls :
            (/\ calls[c].pc = "net"
             /\ calls[c].lastSeen \notin ClientErrors
             /\ calls'[c].lastSeen \in ClientErrors) =>
                /\ calls'[c].pc \in {"gunzip", "done"}
                /\ calls'[c].nreq = calls[c].nreq
                /\ calls'[c].delays = calls[c].delays
                /\ calls'[c].thrown = calls'[c].lastSeen
                /\ now' = now]_vars

C5_Witness ==
    \E c \in Calls :
        /\ calls[c].thrown \in ClientErrors
        /\ calls[c].nreq = 2
        /\ Len(calls[c].delays) = 1
        /\ calls[c].pc = "done"

\* C6 (cached fallback), as stated: a fetch that fails after exhausting its
\* retries while a tier holds an entry for the URL, fresh or stale, returns
\* a document; it raises only when no tier holds one.
C6_CachedFallback ==
    \A c \in Calls :
        (calls[c].pc = "done" /\ ExhaustedRetries(c)) =>
            (calls[c].hadEntry <=> calls[c].result.kind = "doc")

\* C7 (conditional revalidation), as stated: a call answered with 304
\* returns the document that was cached when its request was sent, and the
\* cache still holds that document afterwards.
C7_NotModifiedKeepsDocument ==
    \A c \in Calls :
        (calls[c].pc = "done" /\ calls[c].got304) =>
            /\ calls[c].result.kind = "doc"
            /\ calls[c].result.doc = calls[c].sentDoc
            /\ HeldEntries(cache, calls[c].url) # {}
            /\ \A e \in HeldEntries(cache, calls[c].url) : e.spec = calls[c].sentDoc

\* C12 (a successful fetch updates the cache): when a call that wrote the
\* document of a successful response has completed, a get of the URL made
\* within the TTL of that write returns the document of the response with
\* exactly its ETag and Last-Modified values, whatever was stored before.
C12_SuccessUpdatesCache ==
    \A c \in Calls :
        (/\ calls[c].pc = "done" /\ calls[c].okResp # NoResponse
         /\ IsFresh(calls[c].stored, now)) =>
            LET g == CacheGet(cache, calls[c].url, now) IN
            /\ g.kind = "hit"
            /\ g.entry.spec = calls[c].okResp.body
            /\ g.entry.etag = calls[c].okResp.etag
            /\ g.entry.lastModified = calls[c].okResp.lastModified
            /\ g.entry.url = calls[c].url

\* A forced refresh replaced a document stored with an ETag by one whose
\* response carried none.
C12_Witness ==
    \E c \in Calls :
        /\ calls[c].pc = "done" /\ calls[c].okResp # NoResponse
        /\ IsFresh(calls[c].stored, now)
        /\ calls[c].sentDoc = "d1" /\ calls[c].okResp.body = "d2"
        /\ calls[c].okResp.etag = Undefined

\* ------------------------------------------------ configuration variants
\* The process ends and is started again, possibly with other options: the
\* objects are constructed anew, the cache directory is as it was left.
Restart(config) ==
    /\ \A c \in Calls : calls[c].pc = "idle"
    /\ cfg' = config
    /\ cache' = [EmptyCache EXCEPT !.disk = cache.disk]
    /\ srv' = NoServer
    /\ UNCHANGED <<now, calls, hist>>

\* The values of cacheTtl and retryAttempts at the edge of what ConfigSchema
\* accepts (min(0)), next to ordinary ones.
Configs ==
    {[Config EXCEPT !.cacheTtl = ttl, !.retryAttempts = n] :
        ttl \in {0, CacheTtl}, n \in {0, 1}}

InitCfg == \E config \in Configs : InitWith(config)

NextCfg ==
    \/ \E c \in One, url \in FetchURLs, force \in BOOLEAN : StartFetch(c, url, force)
    \/ \E c \in One : Progress(c, RaceResponses, RaceErrors)
    \/ \E config \in Configs : Restart(config)
    \/ Tick(CfgTicks)

SpecCfg == InitCfg /\ [][NextCfg]_vars

\* C28 (conditional headers follow the stored tokens), as stated: when a
\* call sends its first request, If-None-Match is the ETag and
\* If-Modified-Since the Last-Modified value of the entry the cache holds
\* for the URL, in the memory tier or only in the durable tier, and a
\* header is absent when no entry holds the token.
C28_ConditionalHeaders ==
    [][\A c \in Calls :
          (calls[c].nreq = 0 /\ calls'[c].nreq = 1) =>
              LET held == HeldEntries(cache', calls'[c].url) IN
              /\ \A e \in held :
                    /\ e.etag # Undefined => calls'[c].ifNoneMatch = e.etag
                    /\ e.lastModified # Undefined =>
                          calls'[c].ifModifiedSince = e.lastModified
              /\ (\A e \in held : e.etag = Undefined) =>
                    calls'[c].ifNoneMatch = Undefined
              /\ (\A e \in held : e.lastModified = Undefined) =>
                    calls'[c].ifModifiedSince = Undefined]_vars

\* C38 (at least one attempt is always made), as stated: under every
\* accepted configuration a call of fetchSpec that fails has issued at
\* least one request, and when its last attempt failed the failure carries
\* the error of that attempt.
C38_AtLeastOneAttempt ==
    \A c \in Calls :
        (calls[c].pc = "done" /\ calls[c].result.kind = "error") =>
            /\ calls[c].nreq >= 1
            /\ calls[c].lastSeen # NoError =>
                  calls[c].result.cause.error = calls[c].lastSeen

\* C13 (refresh bypasses the cache), as stated: every fetchSpec(u, true)
\* makes at least one request before it ends, with a document or without.
C13_RefreshAttemptsNetwork ==
    \A c \in Calls :
        (calls[c].pc = "done" /\ calls[c].force) => calls[c].nreq >= 1

\* C14 (cacheTtl = 0 disables caching), as stated: with cacheTtl = 0 and at
\* least one attempt configured, no call is answered by a cache hit, every
\* call makes a request, and a call whose request the origin answers with
\* 'not modified' ends with a document.
C14_TtlZeroDisablesCaching ==
    \A c \in Calls :
        (/\ calls[c].pc = "done" /\ cfg.cacheTtl = 0 /\ cfg.retryAttempts >= 1) =>
            /\ calls[c].getOutcome # "hit"
            /\ calls[c].nreq >= 1
            /\ calls[c].got304 => calls[c].result.kind = "doc"

\* ------------------------------------------------- faults of the disk
GzipFails(c) ==
    /\ calls[c].pc = "gzip"
    /\ Apply(c, GzipFailed(cache, srv, calls[c]))
    /\ UNCHANGED <<now, cfg, hist>>

\* A record of the cache directory is damaged: gunzip will reject it.
Corrupt(url) ==
    /\ DiskPath(url) \in DOMAIN cache.disk
    /\ cache.disk[DiskPath(url)].gz
    /\ cache' = [cache EXCEPT !.disk[DiskPath(url)] = CorruptFile]
    /\ UNCHANGED <<now, cfg, srv, calls, hist>>

FaultResponses == {r \in OkResponses : r.body \in {"d1", "huge"}}

InitFault == InitWith(RaceConfig)

NextFault ==
    \/ \E c \in Calls, url \in FetchURLs : StartFetch(c, url, FALSE)
    \/ \E c \in Calls : Progress(c, FaultResponses, RaceErrors)
    \/ \E c \in Calls : GzipFails(c)
    \/ \E url \in FetchURLs : Corrupt(url)
    \/ Restart(RaceConfig)
    \/ Tick(FaultTicks)

SpecFault == InitFault /\ [][NextFault]_vars

\* C15 (corruption self-healing), as stated: a get whose durable record
\* gunzip rejects ends by returning absent with the record deleted, and the
\* call of fetchSpec around it never ends with the error of that get.
C15_CorruptionHeals ==
    \A c \in Calls :
        (calls[c].getCorrupt /\ calls[c].getOutcome # "pending") =>
            /\ calls[c].getOutcome = "miss"
            /\ calls[c].getEvicted
            /\ calls[c].result.cause.error # ENOENT

\* The durable write of call c failed and no later write has replaced or
\* removed what the call put in the memory tier, if it put anything.
WriteFailedAlone(c) ==
    /\ calls[c].pc = "done" /\ calls[c].diskFailed
    /\ IsFresh(calls[c].stored, now)
    /\ calls[c].url \in DOMAIN cache.mem =>
          cache.mem[calls[c].url].value = calls[c].stored

GetReturnsStored(c) ==
    LET g == CacheGet(cache, calls[c].url, now) IN
    g.kind = "hit" /\ g.entry = calls[c].stored

\* C16 (a durable-write failure does not fail set), as stated: a fetchSpec
\* whose durable write failed returns the document, and while the entry it
\* built is fresh and not overwritten, get returns that entry.
C16_WriteFailureKeepsEntry ==
    \A c \in Calls :
        WriteFailedAlone(c) =>
            /\ Returned(c, calls[c].stored.spec)
            /\ GetReturnsStored(c)

\* C16, amended: a fetchSpec whose durable write failed returns the
\* document; get returns the entry it built while that entry is fresh and
\* the memory tier holds it.
C16_WriteFailureKeepsHeldEntry ==
    \A c \in Calls :
        (calls[c].pc = "done" /\ calls[c].diskFailed) =>
            /\ Returned(c, calls[c].stored.spec)
            /\ (/\ WriteFailedAlone(c)
                /\ calls[c].url \in DOMAIN cache.mem) => GetReturnsStored(c)

\* A durable write failed with no record of the URL on disk, and the entry
\* is served from memory.
C16_Witness ==
    \E c \in Calls :
        /\ WriteFailedAlone(c)
        /\ calls[c].url \in DOMAIN cache.mem
        /\ DiskPath(calls[c].url) \notin DOMAIN cache.disk
        /\ GetReturnsStored(c)

\* ------------------------------------------------- documents in detail
\* Here a document is a record of the fields validateSpec and the resolver
\* look at: openapi, swagger (values as parsed), info (present or not),
\* and refs, the $ref each schema of components.schemas holds; inlined is
\* the set of schemas whose $ref has been replaced by the object it names.
Str(chars) == [type |-> "string", chars |-> chars]
Num(chars) == [type |-> "number", chars |-> chars]
Absent == [type |-> "undefined", chars |-> <<>>]

\* JavaScript truthiness of a parsed value.
Truthy(v) ==
    CASE v.type = "undefined" -> FALSE
      [] v.type = "string" -> v.chars # <<>>
      [] OTHER -> v.chars # <<"0">>

\* String.prototype.startsWith.
StartsWith(v, prefix) ==
    /\ Len(v.chars) >= Len(prefix)
    /\ SubSeq(v.chars, 1, Len(prefix)) = prefix

OpenapiValues ==
    {Absent, Str(<<"3", ".", "0">>), Str(<<"3", ".", "1">>), Str(<<"3">>),
     Str(<<"4", ".", "0">>), Num(<<"3">>)}
SwaggerValues == {Absent, Str(<<"2", ".", "0">>), Str(<<"1", ".", "2">>), Num(<<"2">>)}

Schemas == {"A", "B"}
NoRef == "none"
MissingRef == "missing"      \* '#/components/schemas/Nowhere'
ExternalRef == "external"    \* 'http://other.example/defs.json#/X'
RefGraphs ==
    {[A |-> a, B |-> b] : a \in {NoRef, "A", "B", MissingRef, ExternalRef},
                          b \in {NoRef, "A"}}

Bodies ==
    {[openapi |-> o, swagger |-> w, info |-> i, refs |-> g, inlined |-> {}] :
        o \in OpenapiValues, w \in SwaggerValues, i \in BOOLEAN, g \in RefGraphs}

NoDoc == [openapi |-> Absent, swagger |-> Absent, info |-> FALSE,
          refs |-> [A |-> NoRef, B |-> NoRef], inlined |-> {}]

LocalRefs(doc) == {s \in Schemas : doc.refs[s] \in Schemas}
ExternalRefs(doc) == {s \in Schemas : doc.refs[s] = ExternalRef}
MissingRefs(doc) == {s \in Schemas : doc.refs[s] = MissingRef}

\* Following replaced references from schema s for n steps comes to t.
RECURSIVE Reaches(_, _, _, _)
Reaches(doc, s, t, n) ==
    /\ n > 0
    /\ s \in doc.inlined /\ doc.refs[s] \in Schemas
    /\ \/ doc.refs[s] = t
       \/ Reaches(doc, doc.refs[s], t, n - 1)

\* The object graph of the document has a cycle.
Circular(doc) == \E s \in Schemas : Reaches(doc, s, s, Cardinality(Schemas))

\* $RefParser.dereference(spec, options) with the default options: first
\* every external file is read (reachable: the read succeeds), then each
\* $ref is replaced in place by the object it names, circular ones
\* included; a pointer that names nothing makes it reject after the
\* replacements in partial have been made.
Dereference(doc, reachable, partial) ==
    IF ExternalRefs(doc) # {} /\ ~reachable
    THEN [ok |-> FALSE, spec |-> doc]
    ELSE IF MissingRefs(doc) # {}
    THEN [ok |-> FALSE,
          spec |-> [doc EXCEPT !.inlined = partial \cap (LocalRefs(doc) \cup ExternalRefs(doc))]]
    ELSE [ok |-> TRUE,
          spec |-> [doc EXCEPT !.inlined = LocalRefs(doc) \cup ExternalRefs(doc)]]

\* resolveReferences: the resolved document, or after a rejection the
\* document as it is.
ResolveReferences(doc, reachable, partial) == Dereference(doc, reachable, partial).spec

Marker == Str(<<"3", ".", "0", ".", "0">>)
TypeError == "TypeError"

ValidateSpecAnyVersion(doc) ==
    IF ~Truthy(doc.openapi) /\ ~Truthy(doc.swagger)
    THEN [ok |-> FALSE, error |-> InvalidSpec, spec |-> doc]
    ELSE IF Truthy(doc.swagger)
    THEN [ok |-> doc.info, error |-> IF doc.info THEN NoError ELSE InvalidSpec,
          spec |-> [doc EXCEPT !.openapi = Marker]]
    ELSE [ok |-> doc.info, error |-> IF doc.info THEN NoError ELSE InvalidSpec,
          spec |-> doc]

ValidateSpecNoMarker(doc) ==
    IF ~Truthy(doc.openapi) /\ ~Truthy(doc.swagger)
    THEN [ok |-> FALSE, error |-> InvalidSpec, spec |-> doc]
    ELSE IF Truthy(doc.swagger)
    THEN IF doc.swagger.type # "string"
         THEN [ok |-> FALSE, error |-> TypeError, spec |-> doc]
         ELSE IF ~StartsWith(doc.swagger, <<"2", ".">>)
         THEN [ok |-> FALSE, error |-> InvalidSpec, spec |-> doc]
         ELSE [ok |-> doc.info, error |-> IF doc.info THEN NoError ELSE InvalidSpec,
               spec |-> doc]
    ELSE IF doc.openapi.type # "string"
    THEN [ok |-> FALSE, error |-> TypeError, spec |-> doc]
    ELSE IF ~StartsWith(doc.openapi, <<"3", ".">>)
    THEN [ok |-> FALSE, error |-> InvalidSpec, spec |-> doc]
    ELSE [ok |-> doc.info, error |-> IF doc.info THEN NoError ELSE InvalidSpec,
          spec |-> doc]

\* validateSpec on a document: ok, or the error thrown; spec is the
\* document after the call (a Swagger 2.x document is given openapi =
\* '3.0.0' before info is looked at).
ValidateSpecDoc(doc) ==
    IF ~Truthy(doc.openapi) /\ ~Truthy(doc.swagger)
    THEN [ok |-> FALSE, error |-> InvalidSpec, spec |-> doc]
    ELSE IF Truthy(doc.swagger)
    THEN IF doc.swagger.type # "string"
         THEN [ok |-> FALSE, error |-> TypeError, spec |-> doc]
         ELSE IF ~StartsWith(doc.swagger, <<"2", ".">>)
         THEN [ok |-> FALSE, error |-> InvalidSpec, spec |-> doc]
         ELSE [ok |-> doc.info, error |-> IF doc.info THEN NoError ELSE InvalidSpec,
               spec |-> [doc EXCEPT !.openapi = Marker]]
    ELSE IF doc.openapi.type # "string"
    THEN [ok |-> FALSE, error |-> TypeError, spec |-> doc]
    ELSE IF ~StartsWith(doc.openapi, <<"3", ".">>)
    THEN [ok |-> FALSE, error |-> InvalidSpec, spec |-> doc]
    ELSE [ok |-> doc.info, error |-> IF doc.info THEN NoError ELSE InvalidSpec,
          spec |-> doc]

\* One call of fetchSpec over such documents.  The fields from resolveFailed
\* on are read by the properties only.
NoDocResult == Answer("none", NoDoc, NoCause)
DocEntry(spec, t, url) == [spec |-> spec, timestamp |-> t, url |-> url]
NoDocEntry == DocEntry(NoDoc, 0, Undefined)

IdleDocCall ==
    [pc |-> "idle", url |-> Undefined, body |-> NoDoc, entry |-> NoDocEntry,
     result |-> NoDocResult,
     resolveFailed |-> FALSE,   \* dereference rejected
     passed |-> NoDoc,          \* the document validateSpec was called with
     validation |-> "none",     \* "ok" or "rejected" once validateSpec has run
     setCalled |-> FALSE,       \* cacheManager.set was called
     fallback |-> FALSE]        \* the catch block answered from the cache

\* memoryCache.set with sizeCalculation JSON.stringify(value).length:
\* JSON.stringify throws a TypeError on an object graph with a cycle,
\* before the map is touched.  The documents here are small against the
\* budget.
DocSetSync(C, url, spec, t) ==
    LET entry == DocEntry(spec, t, url) IN
    IF Circular(spec)
    THEN [ok |-> FALSE, cache |-> C, entry |-> entry]
    ELSE [ok |-> TRUE, entry |-> entry,
          cache |-> [C EXCEPT !.mem = Put(C.mem, url, [value |-> entry, start |-> t]),
                              !.order = <<url>> \o Without(C.order, url)]]

\* set after gzip: writeFileSync of the serialized entry (these responses
\* carry no ETag and no Last-Modified, which JSON.stringify leaves out).
DocSetDisk(C, url, entry) ==
    [C EXCEPT !.disk = Put(C.disk, DiskPath(url), Gzip(entry))]

\* get in the catch block.  No step here removes an entry or moves the
\* clock, so the memory tier holds whatever the disk holds and the entry
\* is fresh when the TTL is positive.
DocGet(C, url, t) ==
    IF url \in DOMAIN C.mem /\ IsFresh(C.mem[url].value, t)
    THEN [kind |-> "hit", entry |-> C.mem[url].value]
    ELSE [kind |-> "miss", entry |-> NoDocEntry]

DocFinished(rec, result) ==
    [rec EXCEPT !.pc = "done", !.result = result, !.entry = NoDocEntry]

\* The catch block of fetchSpec.
DocCatch(C, rec, error, t) ==
    LET g == DocGet(C, rec.url, t) IN
    IF g.kind = "hit"
    THEN [cache |-> C,
          call |-> DocFinished([rec EXCEPT !.fallback = TRUE],
                               Answer("doc", g.entry.spec, NoCause))]
    ELSE [cache |-> C,
          call |-> DocFinished(rec, Answer("error", NoDoc, Failed(error)))]

\* fetchSpec lines 76-84 on the document resolveReferences returned.
DocValidateAndSet(C, rec, spec, t) ==
    LET v == ValidateSpecDoc(spec)
        rec1 == [rec EXCEPT !.passed = spec,
                            !.validation = IF v.ok THEN "ok" ELSE "rejected"]
    IN IF ~v.ok THEN DocCatch(C, rec1, v.error, t)
       ELSE LET w == DocSetSync(C, rec.url, v.spec, t)
                rec2 == [rec1 EXCEPT !.setCalled = TRUE]
            IN IF ~w.ok THEN DocCatch(C, rec2, TypeError, t)
               ELSE [cache |-> w.cache,
                     call |-> [rec2 EXCEPT !.pc = "gzip", !.entry = w.entry]]

ResolverError == "EREF"

DocResolveDoneRethrows(C, rec, reachable, partial, t) ==
    LET r == Dereference(rec.body, reachable, partial)
        rec1 == [rec EXCEPT !.resolveFailed = ~r.ok]
    IN IF r.ok THEN DocValidateAndSet(C, rec1, r.spec, t)
       ELSE DocCatch(C, rec1, ResolverError, t)

\* $RefParser.dereference has settled: resolveReferences returns and
\* fetchSpec goes on to validateSpec and cacheManager.set.
DocResolveDone(C, rec, reachable, partial, t) ==
    LET r == Dereference(rec.body, reachable, partial)
        rec1 == [rec EXCEPT !.resolveFailed = ~r.ok]
    IN DocValidateAndSet(C, rec1, ResolveReferences(rec.body, reachable, partial), t)

DocGzipDone(C, rec) ==
    [cache |-> DocSetDisk(C, rec.url, rec.entry),
     call |-> DocFinished(rec, Answer("doc", rec.entry.spec, NoCause))]

DocApply(c, out) ==
    /\ cache' = out.cache
    /\ calls' = [calls EXCEPT ![c] = out.call]
    /\ UNCHANGED <<now, cfg, srv, hist>>

\* fetchSpec(url, true): the lookup is skipped and the request is sent.
DocFetch(c, url) ==
    /\ calls[c].pc = "idle"
    /\ DocApply(c, [cache |-> cache,
                    call |-> [IdleDocCall EXCEPT !.pc = "net", !.url = url]])

\* The origin answers 200 with a JSON body: parseResponse returns the
\* parsed object and resolveReferences awaits the resolver.
DocRespond(c, body) ==
    /\ calls[c].pc = "net"
    /\ DocApply(c, [cache |-> cache,
                    call |-> [calls[c] EXCEPT !.pc = "resolve", !.body = body]])

DocReferencesResolved(c, reachable, partial) ==
    /\ calls[c].pc = "resolve"
    /\ DocApply(c, DocResolveDone(cache, calls[c], reachable, partial, now))

DocGzipAnswers(c) ==
    /\ calls[c].pc = "gzip"
    /\ DocApply(c, DocGzipDone(cache, calls[c]))

DocReturn(c) ==
    /\ calls[c].pc = "done"
    /\ DocApply(c, [cache |-> cache, call |-> IdleDocCall])

InitDoc ==
    /\ now = 0
    /\ cfg = Config
    /\ cache = EmptyCache
    /\ srv = NoServer
    /\ calls = [c \in One |-> IdleDocCall]
    /\ hist = NoOp

NextDoc ==
    \/ \E c \in One, url \in FetchURLs : DocFetch(c, url)
    \/ \E c \in One, body \in Bodies : DocRespond(c, body)
    \/ \E c \in One, reachable \in BOOLEAN, partial \in SUBSET Schemas :
          DocReferencesResolved(c, reachable, partial)
    \/ \E c \in One : DocGzipAnswers(c)
    \/ \E c \in One : DocReturn(c)

SpecDoc == InitDoc /\ [][NextDoc]_vars

\* The call has got past resolveReferences.
Resolved(c) == calls[c].pc \in {"gzip", "done"}

\* The memory tier holds the document for the call's URL.
DocHeld(c, doc) ==
    /\ calls[c].url \in DOMAIN cache.mem
    /\ cache.mem[calls[c].url].value.spec = doc

\* C17 (reference resolution never fails the fetch): after dereference has
\* rejected, validateSpec has been called with the document as parsed,
\* with none or some of its references replaced; if it accepted the
\* document, cacheManager.set has been called; the call never ends with
\* the resolver's error, and it ends with the validated document, held by
\* the cache, whenever validateSpec accepted it and it can be serialized.
C17_ResolutionNeverFails ==
    \A c \in One :
        (Resolved(c) /\ calls[c].resolveFailed) =>
            /\ calls[c].validation # "none"
            /\ [calls[c].passed EXCEPT !.inlined = {}] = calls[c].body
            /\ calls[c].passed.inlined \subseteq
                   LocalRefs(calls[c].body) \cup ExternalRefs(calls[c].body)
            /\ calls[c].validation = "ok" => calls[c].setCalled
            /\ calls[c].result.cause.error # ResolverError
            /\ (/\ calls[c].pc = "done" /\ calls[c].validation = "ok"
                /\ ~Circular(calls[c].passed)) =>
                   /\ calls[c].result =
                         Answer("doc", ValidateSpecDoc(calls[c].passed).spec, NoCause)
                   /\ DocHeld(c, calls[c].result.doc)

\* A document with a reference to an unreachable host was fetched, stored
\* and returned with the reference left in place.
C17_Witness ==
    \E c \in One :
        /\ calls[c].pc = "done" /\ calls[c].resolveFailed
        /\ ExternalRefs(calls[c].body) # {}
        /\ calls[c].passed.inlined = {}
        /\ calls[c].result.kind = "doc" /\ ~calls[c].fallback
        /\ DocHeld(c, calls[c].result.doc)

\* A schema of the document refers to itself, directly or through another.
HasCycle(body) == Circular([body EXCEPT !.inlined = Schemas])

\* C18 (cycle termination), as stated: the fetch of a valid document whose
\* schemas form a reference cycle, all references resolvable, ends with
\* the resolved document stored and returned, the reference that closes
\* the cycle kept as a pointer, so that the object graph has no cycle.
C18_CycleTerminates ==
    \A c \in One :
        (/\ calls[c].pc = "done" /\ HasCycle(calls[c].body)
         /\ MissingRefs(calls[c].body) = {} /\ ExternalRefs(calls[c].body) = {}
         /\ ValidateSpecDoc(calls[c].body).ok) =>
            /\ calls[c].result.kind = "doc" /\ ~calls[c].fallback
            /\ ~Circular(calls[c].result.doc)
            /\ DocHeld(c, calls[c].result.doc)

Declares3x(doc) == doc.openapi.type = "string" /\ StartsWith(doc.openapi, <<"3", ".">>)
Declares2x(doc) == doc.swagger.type = "string" /\ StartsWith(doc.swagger, <<"2", ".">>)

\* The entries the tiers hold.
HeldDocEntries ==
    {cache.mem[u].value : u \in DOMAIN cache.mem}
        \cup {cache.disk[f].data : f \in DOMAIN cache.disk}

\* C19 (unsupported versions are rejected): for a document that declares
\* neither an OpenAPI 3.x nor a Swagger 2.x version validateSpec throws,
\* cacheManager.set is not called, no tier holds the document, and the
\* call ends with an error or with what the cache held before.
C19_UnsupportedRejected ==
    \A c \in One :
        (/\ Resolved(c)
         /\ ~Declares3x(calls[c].body) /\ ~Declares2x(calls[c].body)) =>
            /\ calls[c].pc = "done"
            /\ calls[c].validation = "rejected" /\ ~calls[c].setCalled
            /\ \A e \in HeldDocEntries :
                  [e.spec EXCEPT !.inlined = {}] # calls[c].body
            /\ calls[c].result.kind = "doc" => calls[c].fallback

\* A document declaring OpenAPI 4.0 was fetched and refused.
C19_Witness ==
    \E c \in One :
        /\ calls[c].pc = "done"
        /\ calls[c].body.openapi = Str(<<"4", ".", "0">>)
        /\ calls[c].body.swagger = Absent /\ calls[c].body.info
        /\ calls[c].validation = "rejected"
        /\ calls[c].result = Answer("error", NoDoc, Failed(InvalidSpec))

\* C20 (uniform version shape): every document a tier holds and every
\* document a call returns has a string openapi field that begins with
\* '3.', and a Swagger 2.x document that was fetched is returned with
\* openapi = '3.0.0'.
C20_UniformVersion ==
    /\ \A e \in HeldDocEntries : Declares3x(e.spec)
    /\ \A c \in One :
          (calls[c].pc = "done" /\ calls[c].result.kind = "doc") =>
              /\ Declares3x(calls[c].result.doc)
              /\ (Declares2x(calls[c].body) /\ ~calls[c].fallback) =>
                     calls[c].result.doc.openapi = Marker

\* A Swagger 2.0 document without an openapi field was fetched; both tiers
\* hold it with the marker.
C20_Witness ==
    \E c \in One :
        /\ calls[c].pc = "done" /\ ~calls[c].fallback
        /\ calls[c].body.openapi = Absent /\ Declares2x(calls[c].body)
        /\ calls[c].result.kind = "doc"
        /\ calls[c].result.doc.openapi = Marker
        /\ DocHeld(c, calls[c].result.doc)
        /\ cache.disk[DiskPath(calls[c].url)].data.spec = calls[c].result.doc

\* ------------------------------------------------- validate_request
\* A JSON value as validateAgainstSchema sees it.  Numbers are held in
\* tenths (105 is 10.5); an array holds items, each a primitive with its
\* JSON text or an object of its own; an object holds its own keys.
JsValue(kind, tenths, chars, items, keys) ==
    [kind |-> kind, tenths |-> tenths, chars |-> chars, items |-> items, keys |-> keys,
     props |-> EmptyMap]    \* the values of an object's properties
StringV(chars) == JsValue("string", 0, chars, <<>>, {})
NumberV(tenths) == JsValue("number", tenths, <<>>, <<>>, {})
BooleanV(b) == JsValue("boolean", IF b THEN 1 ELSE 0, <<>>, <<>>, {})
NullV == JsValue("null", 0, <<>>, <<>>, {})
UndefinedV == JsValue("undefined", 0, <<>>, <<>>, {})
ArrayV(items) == JsValue("array", 0, <<>>, items, {})
ObjectV(keys) == JsValue("object", 0, <<>>, <<>>, keys)
FunctionV == JsValue("function", 0, <<>>, <<>>, {})
ObjectWith(props) == [ObjectV(DOMAIN props) EXCEPT !.props = props]

Prim(json) == [prim |-> TRUE, json |-> json]
Obj(json) == [prim |-> FALSE, json |-> json]

Tenth == 10            \* one unit, in tenths

\* typeof value, and the actualType of line 312.
TypeOf(value) ==
    CASE value.kind \in {"null", "array", "object"} -> "object"
      [] OTHER -> value.kind
ActualType(value) == IF value.kind = "array" THEN "array" ELSE TypeOf(value)

IsInteger(value) == value.tenths % Tenth = 0

\* new Set(value).size: primitives are compared by value, every object is
\* an element of its own.
RECURSIVE CountObjects(_)
CountObjects(items) ==
    IF items = <<>> THEN 0
    ELSE (IF items[1].prim THEN 0 ELSE 1) + CountObjects(Tail(items))
SetSize(items) ==
    Cardinality({items[i].json : i \in {j \in DOMAIN items : items[j].prim}})
        + CountObjects(items)

\* The properties every object inherits from Object.prototype, as far as
\* the schemas here name them.
ObjectPrototype == {"toString"}

\* name in value, for a non-null object.
In(name, value) == name \in value.keys \cup ObjectPrototype

\* schema.enum.includes(value): strict equality, which no object or array
\* satisfies against a parsed literal.
Includes(enum, value) ==
    /\ value.kind \in {"string", "number", "boolean", "null", "undefined"}
    /\ \E i \in DOMAIN enum : enum[i] = value

\* new RegExp(pattern) throws a SyntaxError for "("; "^a" tests the first
\* character.
BadPattern == "("
RegexTest(pattern, chars) == Len(chars) >= 1 /\ chars[1] = "a"

\* A schema node; Undefined marks a keyword the node does not have (for
\* the numbers, NoNumber).
NoNumber == -1
NoSchema ==
    [type |-> Undefined, minLength |-> NoNumber, maxLength |-> NoNumber,
     pattern |-> Undefined, minimum |-> NoNumber, maximum |-> NoNumber,
     exclusiveMinimum |-> FALSE, exclusiveMaximum |-> FALSE,
     multipleOf |-> NoNumber, minItems |-> NoNumber, maxItems |-> NoNumber,
     uniqueItems |-> FALSE, enum |-> <<>>, hasEnum |-> FALSE,
     required |-> <<>>, hasRequired |-> FALSE,
     minProperties |-> NoNumber, maxProperties |-> NoNumber,
     ref |-> <<>>,          \* $ref, split at '/'; <<>> when absent
     properties |-> EmptyMap,   \* the sub-schema of each declared property
     items |-> <<>>]        \* the sub-schema of the elements, if declared

Err(code, arg) == [code |-> code, arg |-> arg]
If(cond, errors) == IF cond THEN errors ELSE <<>>

RECURSIVE MissingRequired(_, _)
MissingRequired(required, value) ==
    IF required = <<>> THEN <<>>
    ELSE If(~In(Head(required), value), <<Err("required", Head(required))>>)
            \o MissingRequired(Tail(required), value)

TypeErrors(value, schema) ==
    If(schema.type # Undefined /\ schema.type # ActualType(value),
       <<Err("type", ActualType(value))>>)

StringErrors(value, schema) ==
    If(schema.type = "string" /\ TypeOf(value) = "string",
       If(schema.minLength # NoNumber /\ Len(value.chars) < schema.minLength,
          <<Err("minLength", "")>>)
       \o If(schema.maxLength # NoNumber /\ Len(value.chars) > schema.maxLength,
             <<Err("maxLength", "")>>)
       \o If(schema.pattern # Undefined /\ ~RegexTest(schema.pattern, value.chars),
             <<Err("pattern", "")>>))

NumberErrors(value, schema) ==
    If(schema.type \in {"number", "integer"} /\ TypeOf(value) = "number",
       If(schema.type = "integer" /\ ~IsInteger(value), <<Err("integer", "")>>)
       \o If(schema.minimum # NoNumber,
             IF schema.exclusiveMinimum /\ value.tenths <= schema.minimum
             THEN <<Err("exclusiveMinimum", "")>>
             ELSE If(~schema.exclusiveMinimum /\ value.tenths < schema.minimum,
                     <<Err("minimum", "")>>))
       \o If(schema.maximum # NoNumber,
             IF schema.exclusiveMaximum /\ value.tenths >= schema.maximum
             THEN <<Err("exclusiveMaximum", "")>>
             ELSE If(~schema.exclusiveMaximum /\ value.tenths > schema.maximum,
                     <<Err("maximum", "")>>))
       \o If(schema.multipleOf # NoNumber /\ value.tenths % schema.multipleOf # 0,
             <<Err("multipleOf", "")>>))

ArrayErrors(value, schema) ==
    If(schema.type = "array" /\ value.kind = "array",
       If(schema.minItems # NoNumber /\ Len(value.items) < schema.minItems,
          <<Err("minItems", "")>>)
       \o If(schema.maxItems # NoNumber /\ Len(value.items) > schema.maxItems,
             <<Err("maxItems", "")>>)
       \o If(schema.uniqueItems /\ SetSize(value.items) # Len(value.items),
             <<Err("uniqueItems", "")>>))

EnumErrors(value, schema) ==
    If(schema.hasEnum /\ ~Includes(schema.enum, value), <<Err("enum", "")>>)

ObjectErrors(value, schema) ==
    If(schema.type = "object" /\ TypeOf(value) = "object" /\ value.kind # "array",
       If(schema.hasRequired, MissingRequired(schema.required, value))
       \o If(schema.minProperties # NoNumber
               /\ Cardinality(value.keys) < schema.minProperties,
             <<Err("minProperties", "")>>)
       \o If(schema.maxProperties # NoNumber
               /\ Cardinality(value.keys) > schema.maxProperties,
             <<Err("maxProperties", "")>>))

\* validateAgainstSchema throws where new RegExp rejects the pattern and
\* where the object block is entered with null ('in' and Object.keys
\* throw a TypeError on null).
Throws(value, schema) ==
    \/ /\ schema.type = "string" /\ TypeOf(value) = "string"
       /\ schema.pattern = BadPattern
    \/ /\ schema.type = "object" /\ value.kind = "null"

Checked(threw, errors) == [threw |-> threw, errors |-> errors]

\* validateAgainstSchema: the errors in the order the blocks push them.
ValidateAgainstSchema(value, schema) ==
    IF Throws(value, schema) THEN Checked(TRUE, <<>>)
    ELSE Checked(FALSE,
                 TypeErrors(value, schema) \o StringErrors(value, schema)
                 \o NumberErrors(value, schema) \o ArrayErrors(value, schema)
                 \o EnumErrors(value, schema) \o ObjectErrors(value, schema))

\* The values and schema nodes validateAgainstSchema is applied to.
JsValues ==
    {StringV(<<>>), StringV(<<"a">>), StringV(<<"b", "b", "b">>),
     NumberV(90), NumberV(100), NumberV(105), NumberV(110),
     BooleanV(TRUE), NullV,
     ArrayV(<<>>), ArrayV(<<Prim("1")>>), ArrayV(<<Prim("1"), Prim("1")>>),
     ArrayV(<<Obj("{}"), Obj("{}")>>),
     ObjectV({}), ObjectV({"email"}), ObjectV({"email", "name"})}

SchemaTypes == {"string", "number", "integer", "boolean", "array", "object"}

StringNodes(t) ==
    {[NoSchema EXCEPT !.type = t, !.minLength = lo, !.maxLength = hi, !.pattern = p] :
        lo \in {NoNumber, 2}, hi \in {NoNumber, 2}, p \in {Undefined, "^a", BadPattern}}
NumberNodes(t) ==
    {[NoSchema EXCEPT !.type = t, !.minimum = lo, !.maximum = hi,
                      !.exclusiveMinimum = xlo, !.exclusiveMaximum = xhi,
                      !.multipleOf = m] :
        lo \in {NoNumber, 100}, hi \in {NoNumber, 100},
        xlo \in BOOLEAN, xhi \in BOOLEAN, m \in {NoNumber, 20}}
ArrayNodes(t) ==
    {[NoSchema EXCEPT !.type = t, !.minItems = lo, !.maxItems = hi, !.uniqueItems = u] :
        lo \in {NoNumber, 1}, hi \in {NoNumber, 1}, u \in BOOLEAN}
RequiredLists == {<<"email", "name">>, <<"toString">>}
ObjectNodes(t) ==
    {[NoSchema EXCEPT !.type = t, !.minProperties = lo, !.maxProperties = hi] :
        lo \in {NoNumber, 1}, hi \in {NoNumber, 1}}
    \cup {[NoSchema EXCEPT !.type = t, !.required = r, !.hasRequired = TRUE,
                           !.minProperties = lo] :
            r \in RequiredLists, lo \in {NoNumber, 2}}
EnumNodes(t) ==
    {[NoSchema EXCEPT !.type = t, !.hasEnum = TRUE,
                      !.enum = <<StringV(<<"a">>), NumberV(100)>>]}

SchemaNodes ==
    UNION {StringNodes(t) \cup NumberNodes(t) \cup ArrayNodes(t)
             \cup ObjectNodes(t) \cup EnumNodes(t) :
           t \in SchemaTypes \cup {Undefined}}

\* One application of validateAgainstSchema.
IdleCheck ==
    [pc |-> "idle", value |-> UndefinedV, schema |-> NoSchema,
     checked |-> Checked(FALSE, <<>>)]

Validate(c) ==
    /\ calls[c].pc = "idle"
    /\ \E value \in JsValues, schema \in SchemaNodes :
          calls' = [calls EXCEPT ![c] =
                      [pc |-> "done", value |-> value, schema |-> schema,
                       checked |-> ValidateAgainstSchema(value, schema)]]
    /\ UNCHANGED <<now, cfg, cache, srv, hist>>

ValidateReturn(c) ==
    /\ calls[c].pc = "done"
    /\ calls' = [calls EXCEPT ![c] = IdleCheck]
    /\ UNCHANGED <<now, cfg, cache, srv, hist>>

InitSchema ==
    /\ now = 0
    /\ cfg = Config
    /\ cache = EmptyCache
    /\ srv = NoServer
    /\ calls = [c \in One |-> IdleCheck]
    /\ hist = NoOp

NextSchema ==
    \/ \E c \in One : Validate(c)
    \/ \E c \in One : ValidateReturn(c)

SpecSchema == InitSchema /\ [][NextSchema]_vars

\* The call has returned errors; code is among them.
Reports(c, code) ==
    \E i \in DOMAIN calls[c].checked.errors : calls[c].checked.errors[i].code = code
ReturnedErrors(c) == calls[c].pc = "done" /\ ~calls[c].checked.threw

\* The runtime kind of the value is the declared type, as the claim lists
\* the kinds.
KindMatches(value, type) ==
    CASE type = "string" -> value.kind = "string"
      [] type = "number" -> value.kind = "number"
      [] type = "integer" -> value.kind = "number" /\ IsInteger(value)
      [] type = "boolean" -> value.kind = "boolean"
      [] type = "array" -> value.kind = "array"
      [] OTHER -> value.kind = "object"

\* C29 (declared-type match), as stated: for a schema that declares a
\* type, a type error is among the errors returned exactly when the kind
\* of the value is not the declared type.
C29_DeclaredTypeMatch ==
    \A c \in One :
        (ReturnedErrors(c) /\ calls[c].schema.type # Undefined) =>
            (Reports(c, "type") <=> ~KindMatches(calls[c].value, calls[c].schema.type))

\* The schema has no keyword but type and the numeric bounds.
OnlyBounds(schema) ==
    schema = [NoSchema EXCEPT !.type = schema.type,
                              !.minimum = schema.minimum, !.maximum = schema.maximum,
                              !.exclusiveMinimum = schema.exclusiveMinimum,
                              !.exclusiveMaximum = schema.exclusiveMaximum]

AboveMaximum(value, schema) ==
    /\ schema.maximum # NoNumber
    /\ IF schema.exclusiveMaximum THEN value.tenths >= schema.maximum
       ELSE value.tenths > schema.maximum

BelowMinimum(value, schema) ==
    /\ schema.minimum # NoNumber
    /\ IF schema.exclusiveMinimum THEN value.tenths <= schema.minimum
       ELSE value.tenths < schema.minimum

\* C24 (numeric boundary), as stated: for a number and a schema for
\* numbers (type number, integer, or none) a maximum error is returned
\* exactly when the value is above an inclusive or at or above an
\* exclusive maximum, symmetrically for the minimum, and a whole number
\* within the bounds of a schema that has no other keyword is accepted
\* without any error.
C24_NumericBoundary ==
    \A c \in One :
        (/\ ReturnedErrors(c) /\ calls[c].value.kind = "number"
         /\ calls[c].schema.type \in {Undefined, "number", "integer"}) =>
            LET v == calls[c].value
                n == calls[c].schema IN
            /\ (Reports(c, "maximum") \/ Reports(c, "exclusiveMaximum"))
                  <=> AboveMaximum(v, n)
            /\ (Reports(c, "minimum") \/ Reports(c, "exclusiveMinimum"))
                  <=> BelowMinimum(v, n)
            /\ (/\ OnlyBounds(n) /\ IsInteger(v)
                /\ ~AboveMaximum(v, n) /\ ~BelowMinimum(v, n)) =>
                   calls[c].checked.errors = <<>>

\* The constraints of the node that the value violates, by the meaning of
\* the keywords: each applies to the values of its kind whatever type the
\* node declares, arrays are compared item by item and objects by their
\* own properties.
Violated(value, schema) ==
    {code \in {"minLength", "maxLength", "pattern", "minimum", "maximum",
               "multipleOf", "minItems", "maxItems", "uniqueItems",
               "required", "minProperties", "maxProperties", "enum"} :
        CASE code = "minLength" ->
               /\ value.kind = "string" /\ schema.minLength # NoNumber
               /\ Len(value.chars) < schema.minLength
          [] code = "maxLength" ->
               /\ value.kind = "string" /\ schema.maxLength # NoNumber
               /\ Len(value.chars) > schema.maxLength
          [] code = "pattern" ->
               /\ value.kind = "string" /\ schema.pattern = "^a"
               /\ ~RegexTest(schema.pattern, value.chars)
          [] code = "minimum" -> value.kind = "number" /\ BelowMinimum(value, schema)
          [] code = "maximum" -> value.kind = "number" /\ AboveMaximum(value, schema)
          [] code = "multipleOf" ->
               /\ value.kind = "number" /\ schema.multipleOf # NoNumber
               /\ value.tenths % schema.multipleOf # 0
          [] code = "minItems" ->
               /\ value.kind = "array" /\ schema.minItems # NoNumber
               /\ Len(value.items) < schema.minItems
          [] code = "maxItems" ->
               /\ value.kind = "array" /\ schema.maxItems # NoNumber
               /\ Len(value.items) > schema.maxItems
          [] code = "uniqueItems" ->
               /\ value.kind = "array" /\ schema.uniqueItems
               /\ \E i, j \in DOMAIN value.items :
                     i # j /\ value.items[i].json = value.items[j].json
          [] code = "required" ->
               /\ value.kind = "object" /\ schema.hasRequired
               /\ \E i \in DOMAIN schema.required : schema.required[i] \notin value.keys
          [] code = "minProperties" ->
               /\ value.kind = "object" /\ schema.minProperties # NoNumber
               /\ Cardinality(value.keys) < schema.minProperties
          [] code = "maxProperties" ->
               /\ value.kind = "object" /\ schema.maxProperties # NoNumber
               /\ Cardinality(value.keys) > schema.maxProperties
          [] OTHER ->
               /\ schema.hasEnum
               /\ \A i \in DOMAIN schema.enum : schema.enum[i] # value}

ReportsViolation(c, code) ==
    CASE code = "minimum" -> Reports(c, "minimum") \/ Reports(c, "exclusiveMinimum")
      [] code = "maximum" -> Reports(c, "maximum") \/ Reports(c, "exclusiveMaximum")
      [] OTHER -> Reports(c, code)

\* C30 (all checks are attempted), as stated: a call that returns holds an
\* error for every constraint of the node that the value violates.
C30_AllChecksAttempted ==
    \A c \in One :
        ReturnedErrors(c) =>
            \A code \in Violated(calls[c].value, calls[c].schema) :
                ReportsViolation(c, code)

\* ------------------------------------------ validate_request: execute
\* A Parameter of an operation; required is "true", "false" or Undefined.
Parameter(in, name, required, schema, deprecated) ==
    [in |-> in, name |-> name, required |-> required, hasSchema |-> TRUE,
     schema |-> schema, deprecated |-> deprecated, allowEmptyValue |-> FALSE]

\* ValidationResult, or the error execute threw.
NoThrow == "none"
Result(valid, errors, warnings, threw) ==
    [valid |-> valid, errors |-> errors, warnings |-> warnings, threw |-> threw]
EmptyResult == Result(TRUE, <<>>, <<>>, NoThrow)

Located(location, field, checked) ==
    [i \in DOMAIN checked.errors |->
        [location |-> location, field |-> field, message |-> checked.errors[i]]]

\* The part of the three parameter loops that is the same: the schema
\* check of a provided value and the deprecation warning.
CheckProvided(location, param, value, result) ==
    LET checked == IF param.hasSchema THEN ValidateAgainstSchema(value, param.schema)
                   ELSE Checked(FALSE, <<>>)
    IN IF checked.threw THEN [result EXCEPT !.threw = TypeError]
       ELSE [result EXCEPT
               !.errors = @ \o Located(location, param.name, checked),
               !.warnings = @ \o If(param.deprecated, <<param.name>>)]

MissingError(location, param) ==
    <<[location |-> location, field |-> param.name, message |-> Err("missing", "")]>>

\* 'name in object' and object[name] for the params and headers objects:
\* an own property, or one inherited from Object.prototype (a function).
HasProperty(name, object) == name \in DOMAIN object \cup ObjectPrototype
GetProperty(name, object) ==
    IF name \in DOMAIN object THEN object[name] ELSE FunctionV

RECURSIVE ValidatePathParameters(_, _, _)
ValidatePathParameters(parameters, providedParams, result) ==
    IF parameters = <<>> \/ result.threw # NoThrow THEN result
    ELSE LET param == Head(parameters)
             provided == HasProperty(param.name, providedParams)
             r1 == [result EXCEPT !.errors =
                       @ \o If(param.required # "false" /\ ~provided,
                               MissingError("path", param))]
             r2 == IF provided
                   THEN CheckProvided("path", param,
                                      GetProperty(param.name, providedParams), r1)
                   ELSE r1
         IN ValidatePathParameters(Tail(parameters), providedParams, r2)

RECURSIVE ValidateQueryParameters(_, _, _)
ValidateQueryParameters(parameters, providedParams, result) ==
    IF parameters = <<>> \/ result.threw # NoThrow THEN result
    ELSE LET param == Head(parameters)
             provided == HasProperty(param.name, providedParams)
             r1 == [result EXCEPT !.errors =
                       @ \o If(param.required = "true" /\ ~provided,
                               MissingError("query", param))]
             r2 == IF provided
                   THEN CheckProvided("query", param,
                                      GetProperty(param.name, providedParams), r1)
                   ELSE r1
             r3 == IF /\ provided /\ r2.threw = NoThrow
                      /\ ~param.allowEmptyValue
                      /\ GetProperty(param.name, providedParams) = StringV(<<>>)
                   THEN [r2 EXCEPT !.errors = @ \o
                           <<[location |-> "query", field |-> param.name,
                              message |-> Err("empty", "")]>>]
                   ELSE r2
         IN ValidateQueryParameters(Tail(parameters), providedParams, r3)

\* String.prototype.toLowerCase on the header names used here.
ToLowerCase(name) ==
    CASE name \in {"X-Token", "X-TOKEN", "x-token"} -> "x-token"
      [] name = "toString" -> "tostring"
      [] OTHER -> name

\* providedHeadersLower: for keys that differ only in case the later key
\* wins; here at most one key is provided per name.
HeadersLower(providedHeaders) ==
    [k \in {ToLowerCase(h) : h \in DOMAIN providedHeaders} |->
        providedHeaders[CHOOSE h \in DOMAIN providedHeaders : ToLowerCase(h) = k]]

RECURSIVE ValidateHeaderParameters(_, _, _)
ValidateHeaderParameters(parameters, providedHeaders, result) ==
    IF parameters = <<>> \/ result.threw # NoThrow THEN result
    ELSE LET param == Head(parameters)
             headerName == ToLowerCase(param.name)
             lower == HeadersLower(providedHeaders)
             provided == HasProperty(headerName, lower)
             r1 == [result EXCEPT !.errors =
                       @ \o If(param.required = "true" /\ ~provided,
                               MissingError("header", param))]
             r2 == IF provided
                   THEN CheckProvided("header", param,
                                      GetProperty(headerName, lower), r1)
                   ELSE r1
         IN ValidateHeaderParameters(Tail(parameters), providedHeaders, r2)

\* requestBody of an operation: content['application/json'].schema given
\* inline.
RequestBody(required, schema) == [required |-> required, schema |-> schema]
NoRequestBody == RequestBody(FALSE, NoSchema)

\* resolveRef: null unless the reference starts with '#/'; then one walk
\* from the root of the document along the segments.
Resolution(found, schema) == [found |-> found, schema |-> schema]

RECURSIVE Lookup(_, _)
Lookup(current, path) ==
    IF path = <<>> THEN Resolution(TRUE, current)
    ELSE IF Head(path) \in DOMAIN current
    THEN Lookup(current[Head(path)], Tail(path))
    ELSE Resolution(FALSE, NoSchema)

ResolveRef(ref, spec) ==
    IF Head(ref) # "#" THEN Resolution(FALSE, NoSchema)
    ELSE Lookup(spec, Tail(ref))

SchemaRef(name) == <<"#", "components", "schemas", name>>

\* The loaded document's components: a schema, and a schema that is a
\* reference to it.
Document ==
    [components |->
        [schemas |->
            [User |-> [NoSchema EXCEPT !.type = "object", !.required = <<"email">>,
                                       !.hasRequired = TRUE],
             Alias |-> [NoSchema EXCEPT !.ref = SchemaRef("User")]]]]

ValidateRequestBody(requestBody, providedBody, spec, result) ==
    IF result.threw # NoThrow THEN result
    ELSE IF requestBody.required /\ providedBody.kind \in {"undefined", "null"}
    THEN [result EXCEPT !.errors = @ \o
            <<[location |-> "body", field |-> "body", message |-> Err("missing", "")]>>]
    ELSE IF providedBody.kind \in {"undefined", "null"} THEN result
    ELSE LET resolved == IF requestBody.schema.ref # <<>>
                         THEN ResolveRef(requestBody.schema.ref, spec)
                         ELSE Resolution(TRUE, requestBody.schema)
         IN IF ~resolved.found
            THEN [result EXCEPT !.warnings = @ \o <<"unresolved">>]
            ELSE LET checked == ValidateAgainstSchema(providedBody, resolved.schema) IN
                 IF checked.threw THEN [result EXCEPT !.threw = TypeError]
                 ELSE [result EXCEPT !.errors = @ \o Located("body", "body", checked)]

WithIn(parameters, location) == SelectSeq(parameters, LAMBDA p : p.in = location)

\* The document's paths: one path with one operation.
KnownPath == "/users"
KnownMethod == "POST"
NotFound == "Error"

BodyStep(operation, args, result) ==
    IF operation.hasBody
    THEN ValidateRequestBody(operation.requestBody, args.body, Document, result)
    ELSE IF result.threw = NoThrow /\ args.body.kind \notin {"undefined", "null"}
    THEN [result EXCEPT !.warnings = @ \o <<"body not expected">>]
    ELSE result

Finish(operation, result) ==
    IF result.threw # NoThrow THEN result
    ELSE LET r == [result EXCEPT !.warnings =
                      @ \o If(operation.deprecated, <<"deprecated">>)]
         IN [r EXCEPT !.valid = (r.errors = <<>>)]

ExecuteStopAtFirst(args, operation) ==
    IF args.path # KnownPath \/ args.method # KnownMethod
    THEN [EmptyResult EXCEPT !.threw = NotFound]
    ELSE LET r1 == ValidatePathParameters(WithIn(operation.parameters, "path"),
                                          args.params, EmptyResult)
             r2 == IF r1.errors # <<>> THEN r1
                   ELSE ValidateQueryParameters(WithIn(operation.parameters, "query"),
                                                args.params, r1)
             r3 == IF r2.errors # <<>> THEN r2
                   ELSE ValidateHeaderParameters(WithIn(operation.parameters, "header"),
                                                 args.headers, r2)
             r4 == IF r3.errors # <<>> THEN r3 ELSE BodyStep(operation, args, r3)
         IN Finish(operation, r4)

\* ValidateRequestTool.execute on a loaded document.
Execute(args, operation) ==
    IF args.path # KnownPath \/ args.method # KnownMethod
    THEN [EmptyResult EXCEPT !.threw = NotFound]
    ELSE LET r1 == ValidatePathParameters(WithIn(operation.parameters, "path"),
                                          args.params, EmptyResult)
             r2 == ValidateQueryParameters(WithIn(operation.parameters, "query"),
                                           args.params, r1)
             r3 == ValidateHeaderParameters(WithIn(operation.parameters, "header"),
                                            args.headers, r2)
             r4 == BodyStep(operation, args, r3)
         IN Finish(operation, r4)

\* The operations of the document and the arguments of the requests.
QuerySchemas ==
    {[NoSchema EXCEPT !.type = "string", !.minLength = 2],
     [NoSchema EXCEPT !.type = "object"]}
BodySchemas ==
    {[NoSchema EXCEPT !.type = t, !.required = r, !.hasRequired = TRUE] :
        t \in {"object", Undefined}, r \in RequiredLists}

Operations ==
    {[parameters |->
        <<Parameter("query", "q", qr, qs, dep),
          Parameter("header", "X-Token", "true", [NoSchema EXCEPT !.type = "string"], FALSE),
          Parameter("path", "id", Undefined, [NoSchema EXCEPT !.type = "number"], FALSE)>>,
      hasBody |-> hb, requestBody |-> RequestBody(br, bs), deprecated |-> dep] :
        qr \in {"true", Undefined}, qs \in QuerySchemas, dep \in BOOLEAN,
        hb \in BOOLEAN, br \in BOOLEAN, bs \in BodySchemas}

ParamValues ==
    [id |-> {NumberV(100), StringV(<<"a">>)},
     q |-> {StringV(<<>>), StringV(<<"a", "a">>), NullV}]
ParamMaps ==
    UNION {{f \in [D -> UNION {ParamValues[n] : n \in D}] :
              \A n \in D : f[n] \in ParamValues[n]} : D \in SUBSET {"id", "q"}}
HeaderMaps == {EmptyMap, [h \in {"X-TOKEN"} |-> StringV(<<"a">>)]}
BodyValues == {UndefinedV, NullV, StringV(<<"a">>), ObjectV({"email"}),
               ObjectV({"email", "name"})}

RequestArgs ==
    {[path |-> p, method |-> m, params |-> ps, headers |-> hs, body |-> b] :
        p \in {KnownPath, "/nowhere"}, m \in {KnownMethod, "GET"},
        ps \in ParamMaps, hs \in HeaderMaps, b \in BodyValues}

IdleRequest ==
    [pc |-> "idle",
     args |-> [path |-> KnownPath, method |-> KnownMethod, params |-> EmptyMap,
               headers |-> EmptyMap, body |-> UndefinedV],
     operation |-> [parameters |-> <<>>, hasBody |-> FALSE,
                    requestBody |-> NoRequestBody, deprecated |-> FALSE],
     result |-> EmptyResult]

ValidateRequest(c) ==
    /\ calls[c].pc = "idle"
    /\ \E args \in RequestArgs, operation \in Operations :
          calls' = [calls EXCEPT ![c] =
                      [pc |-> "done", args |-> args, operation |-> operation,
                       result |-> Execute(args, operation)]]
    /\ UNCHANGED <<now, cfg, cache, srv, hist>>

RequestReturn(c) ==
    /\ calls[c].pc = "done"
    /\ calls' = [calls EXCEPT ![c] = IdleRequest]
    /\ UNCHANGED <<now, cfg, cache, srv, hist>>

InitRequest ==
    /\ now = 0
    /\ cfg = Config
    /\ cache = EmptyCache
    /\ srv = NoServer
    /\ calls = [c \in One |-> IdleRequest]
    /\ hist = NoOp

NextRequest ==
    \/ \E c \in One : ValidateRequest(c)
    \/ \E c \in One : RequestReturn(c)

SpecRequest == InitRequest /\ [][NextRequest]_vars

Answered(c) == calls[c].pc = "done" /\ calls[c].result.threw = NoThrow

LocationRank(location) ==
    CASE location = "path" -> 1
      [] location = "query" -> 2
      [] location = "header" -> 3
      [] OTHER -> 4

ErrorsAt(result, location) ==
    SelectSeq(result.errors, LAMBDA e : e.location = location)

\* The errors each location yields when it is checked alone.
AloneAt(args, operation, location) ==
    CASE location = "path" ->
           ValidatePathParameters(WithIn(operation.parameters, "path"),
                                  args.params, EmptyResult).errors
      [] location = "query" ->
           ValidateQueryParameters(WithIn(operation.parameters, "query"),
                                   args.params, EmptyResult).errors
      [] location = "header" ->
           ValidateHeaderParameters(WithIn(operation.parameters, "header"),
                                    args.headers, EmptyResult).errors
      [] OTHER ->
           IF operation.hasBody
           THEN ValidateRequestBody(operation.requestBody, args.body, Document,
                                    EmptyResult).errors
           ELSE <<>>

\* C21 (valid iff no errors; errors of all locations): in every result
\* validate_request returns, valid is true exactly when errors is empty,
\* whatever the warnings; the errors of each location are those the
\* location yields when checked alone, and they stand in the order path,
\* query, header, body.
C21_ValidIffNoErrors ==
    \A c \in One :
        Answered(c) =>
            LET r == calls[c].result IN
            /\ r.valid <=> (r.errors = <<>>)
            /\ \A location \in {"path", "query", "header", "body"} :
                  ErrorsAt(r, location)
                      = AloneAt(calls[c].args, calls[c].operation, location)
            /\ \A i, j \in DOMAIN r.errors :
                  i < j => LocationRank(r.errors[i].location)
                              <= LocationRank(r.errors[j].location)

\* A request to a deprecated operation with errors in all four locations.
C21_Witness ==
    \E c \in One :
        /\ Answered(c)
        /\ \A location \in {"path", "query", "header", "body"} :
              ErrorsAt(calls[c].result, location) # <<>>
        /\ calls[c].result.warnings # <<>>
        /\ ~calls[c].result.valid

\* C22 (validation failures are data, never faults), as stated: every
\* call of validate_request returns a ValidationResult.
C22_NeverRaises ==
    \A c \in One : calls[c].pc = "done" => calls[c].result.threw = NoThrow

\* C23 (required-property aggregation), as stated: for a body schema
\* that lists required properties and an object body, the result holds
\* one missing-property error for each required name the body does not
\* have and none for the others, and valid is false when a name is
\* missing.
C23_RequiredAggregation ==
    \A c \in One :
        (/\ Answered(c) /\ calls[c].operation.hasBody
         /\ calls[c].operation.requestBody.schema.hasRequired
         /\ calls[c].args.body.kind = "object") =>
            LET required == calls[c].operation.requestBody.schema.required
                errors == ErrorsAt(calls[c].result, "body")
                missing == {required[i] : i \in DOMAIN required}
                              \ calls[c].args.body.keys
            IN /\ \A name \in missing :
                     Cardinality({i \in DOMAIN errors :
                                    errors[i].message = Err("required", name)}) = 1
               /\ \A i \in DOMAIN errors :
                     errors[i].message.code = "required" =>
                        errors[i].message.arg \in missing
               /\ missing # {} => ~calls[c].result.valid

\* ----------------------------------- validate_request: nested values
\* Objects and arrays with contents, and nodes that declare sub-schemas
\* for them.
NestedValues ==
    {ObjectV({}),
     ObjectWith([n \in {"email"} |-> StringV(<<"a">>)]),
     ObjectWith([n \in {"email"} |-> NumberV(100)]),
     ObjectWith([n \in {"email", "name"} |-> StringV(<<"a">>)]),
     ObjectWith([n \in {"email", "name"} |-> NullV]),
     ArrayV(<<Prim("1"), Prim("1")>>), ArrayV(<<Prim("2"), Prim("2")>>),
     ArrayV(<<Prim("1"), Prim("2")>>), ArrayV(<<Prim("'a'"), Prim("'b'")>>),
     ArrayV(<<Obj("{}"), Obj("{}")>>), ArrayV(<<Obj("{x:1}"), Obj("{x:2}")>>)}

NestedNodes ==
    {[NoSchema EXCEPT !.type = "object",
                      !.properties = [n \in {"email"} |-> [NoSchema EXCEPT !.type = "string"]],
                      !.required = <<"email">>, !.hasRequired = r,
                      !.minProperties = lo] :
        r \in BOOLEAN, lo \in {NoNumber, 2}}
    \cup {[NoSchema EXCEPT !.type = "array",
                           !.items = <<[NoSchema EXCEPT !.type = "number"]>>,
                           !.uniqueItems = u, !.minItems = lo] :
            u \in BOOLEAN, lo \in {NoNumber, 1}}
    \cup {[NoSchema EXCEPT !.hasEnum = TRUE, !.enum = <<StringV(<<"a">>)>>,
                           !.properties =
                               [n \in {"email"} |-> [NoSchema EXCEPT !.type = "string"]]]}

ValidateNested(c) ==
    /\ calls[c].pc = "idle"
    /\ \E value \in NestedValues, schema \in NestedNodes :
          calls' = [calls EXCEPT ![c] =
                      [pc |-> "done", value |-> value, schema |-> schema,
                       checked |-> ValidateAgainstSchema(value, schema)]]
    /\ UNCHANGED <<now, cfg, cache, srv, hist>>

InitNested ==
    /\ now = 0
    /\ cfg = Config
    /\ cache = EmptyCache
    /\ srv = NoServer
    /\ calls = [c \in Calls |-> IdleCheck]
    /\ hist = NoOp

NextNested ==
    \/ \E c \in Calls : ValidateNested(c)
    \/ \E c \in Calls : ValidateReturn(c)

SpecNested == InitNested /\ [][NextNested]_vars

\* Two objects with the same property names.
SameNames(v, w) == v.kind = "object" /\ w.kind = "object" /\ v.keys = w.keys

\* Two arrays of one length whose elements are equal at the same pairs
\* of places.
SameShape(v, w) ==
    /\ v.kind = "array" /\ w.kind = "array"
    /\ Len(v.items) = Len(w.items)
    /\ \A i, j \in DOMAIN v.items :
          (v.items[i] = v.items[j]) <=> (w.items[i] = w.items[j])

Requiredness == {"true", "false", Undefined}

ParameterOperations ==
    {[parameters |->
        <<Parameter("path", "id", rp, [NoSchema EXCEPT !.type = "number"], FALSE),
          Parameter("query", "q", rq, [NoSchema EXCEPT !.type = "string"], FALSE),
          Parameter("header", "X-Token", rh, [NoSchema EXCEPT !.type = "string"], FALSE),
          Parameter(in, name, "true", [NoSchema EXCEPT !.type = "string"], FALSE)>>,
      hasBody |-> FALSE, requestBody |-> NoRequestBody, deprecated |-> FALSE] :
        rp \in Requiredness, rq \in Requiredness, rh \in Requiredness,
        in \in {"path", "query"}, name \in {"page", "toString"}}

ProvidedValues == [id |-> NumberV(100), q |-> StringV(<<"a">>), page |-> StringV(<<"a">>)]

ParameterArgs ==
    {[path |-> KnownPath, method |-> KnownMethod,
      params |-> [n \in D |-> ProvidedValues[n]],
      headers |-> [h \in H |-> StringV(<<"a">>)], body |-> UndefinedV] :
        D \in SUBSET {"id", "q", "page"},
        H \in {{}, {"X-Token"}, {"X-TOKEN"}, {"x-token"}}}

ValidateParameters(c) ==
    /\ calls[c].pc = "idle"
    /\ \E args \in ParameterArgs, operation \in ParameterOperations :
          calls' = [calls EXCEPT ![c] =
                      [pc |-> "done", args |-> args, operation |-> operation,
                       result |-> Execute(args, operation)]]
    /\ UNCHANGED <<now, cfg, cache, srv, hist>>

NextParameters ==
    \/ \E c \in One : ValidateParameters(c)
    \/ \E c \in One : RequestReturn(c)

SpecParameters == InitRequest /\ [][NextParameters]_vars

\* The result holds the missing-parameter error of the parameter.
ReportedMissing(result, param) ==
    \E i \in DOMAIN result.errors :
        result.errors[i] = MissingError(param.in, param)[1]

\* The request does not carry the parameter: params has no such name; the
\* headers map has it in no letter case.
NotCarried(param, args) ==
    IF param.in = "header"
    THEN \A h \in DOMAIN args.headers : ToLowerCase(h) # ToLowerCase(param.name)
    ELSE param.name \notin DOMAIN args.params

MustBePresent(param) ==
    IF param.in = "path" THEN param.required # "false" ELSE param.required = "true"

\* C40 (parameter requiredness), as stated: the result holds the
\* missing-parameter error of a declared parameter exactly when the
\* request does not carry it and it is a path parameter that does not
\* declare required: false, or a query or header parameter that declares
\* required: true; a header counts as carried in any letter case.
C40_ParameterRequiredness ==
    \A c \in One :
        Answered(c) =>
            \A i \in DOMAIN calls[c].operation.parameters :
                LET param == calls[c].operation.parameters[i] IN
                ReportedMissing(calls[c].result, param)
                    <=> (NotCarried(param, calls[c].args) /\ MustBePresent(param))

\* ------------------------------------- validate_request: references
\* Schema nodes of an operation that are references or plain schemas.
ReferenceNodes ==
    {[NoSchema EXCEPT !.ref = SchemaRef(name)] : name \in {"User", "Alias", "Nowhere"}}
    \cup {[NoSchema EXCEPT !.ref = <<"other.json#", "components", "schemas", "User">>],
          [NoSchema EXCEPT !.type = "string"]}

ReferenceOperations ==
    {[parameters |-> <<Parameter("query", "q", "true", qs, FALSE)>>,
      hasBody |-> TRUE, requestBody |-> RequestBody(FALSE, bs), deprecated |-> FALSE] :
        qs \in ReferenceNodes, bs \in ReferenceNodes}

ReferenceValues == {StringV(<<"a">>), ObjectV({}), ObjectV({"email"})}

ReferenceArgs ==
    {[path |-> KnownPath, method |-> KnownMethod, params |-> [n \in {"q"} |-> q],
      headers |-> EmptyMap, body |-> b] :
        q \in ReferenceValues, b \in ReferenceValues}

ValidateReferenced(c) ==
    /\ calls[c].pc = "idle"
    /\ \E args \in ReferenceArgs, operation \in ReferenceOperations :
          calls' = [calls EXCEPT ![c] =
                      [pc |-> "done", args |-> args, operation |-> operation,
                       result |-> Execute(args, operation)]]
    /\ UNCHANGED <<now, cfg, cache, srv, hist>>

NextRef ==
    \/ \E c \in One : ValidateReferenced(c)
    \/ \E c \in One : RequestReturn(c)

SpecRef == InitRequest /\ [][NextRef]_vars

Messages(errors) == [i \in DOMAIN errors |-> errors[i].message]

\* The errors of a value under a node after exactly one hop: a reference
\* is looked up once and the node found is checked as it stands.
AfterOneHop(node, value) ==
    IF node.ref = <<>> THEN ValidateAgainstSchema(value, node).errors
    ELSE LET resolved == ResolveRef(node.ref, Document) IN
         IF resolved.found THEN ValidateAgainstSchema(value, resolved.schema).errors
         ELSE <<>>

BodyAfterOneHop(c) ==
    Messages(ErrorsAt(calls[c].result, "body"))
        = AfterOneHop(calls[c].operation.requestBody.schema, calls[c].args.body)

\* C31 (exactly one reference hop), as stated: the errors reported for the
\* body and for a parameter are those of the value under the node its
\* schema refers to, looked up once in the document and not dereferenced
\* further, for the request-body schema and a parameter schema alike.
C31_OneReferenceHop ==
    \A c \in One :
        Answered(c) =>
            /\ BodyAfterOneHop(c)
            /\ Messages(ErrorsAt(calls[c].result, "query"))
                  = AfterOneHop(calls[c].operation.parameters[1].schema,
                                calls[c].args.params["q"])

\* --------------------------------------------------- overlapping calls
\* C1 (freshness idempotence), as stated: a not forced fetchSpec that
\* starts while the entry stored by an earlier completed network fetch of
\* the URL is within the TTL, with no forced refresh since, makes no
\* request and returns the document of that fetch.  (A completed fetch has
\* made one request here, so the pair makes one request iff the later
\* call makes none.)
C1_FreshnessIdempotence ==
    \A c \in Calls :
        (/\ calls[c].pc = "done" /\ ~calls[c].force
         /\ calls[c].first # {} /\ ~calls[c].superseded) =>
            /\ calls[c].nreq = 0
            /\ \A e \in calls[c].first : Returned(c, e.spec)

\* C1, amended: when that entry is also the one the cache serves for the
\* URL at the start of the later call, and is still within the TTL when
\* the lookup makes its freshness check, the later call makes no request
\* and returns the entry's document.
C1_FreshHitIdempotence ==
    \A c \in Calls :
        (/\ calls[c].pc = "done" /\ ~calls[c].force
         /\ calls[c].kept # {} /\ ~calls[c].lapsed) =>
            /\ calls[c].nreq = 0
            /\ \A e \in calls[c].kept : Returned(c, e.spec)

\* The later call was answered from the durable tier.
C1_Witness ==
    \E c \in Calls :
        /\ calls[c].pc = "done" /\ ~calls[c].force
        /\ calls[c].kept # {} /\ ~calls[c].lapsed
        /\ calls[c].nreq = 0
        /\ calls[c].url \notin DOMAIN cache.mem

\* C33 (get never raises under overlap), as stated: no get of overlapping
\* calls ends by raising, whatever another call did to the record in
\* between, and no fetchSpec(u, false) ends with the file-system error of
\* its cache lookup.
C33_GetNeverRaises ==
    \A c \in Calls :
        /\ calls[c].getOutcome # "raise"
        /\ (calls[c].pc = "done" /\ ~calls[c].force) =>
              calls[c].result.cause.error # ENOENT

\* C2 (expiry), as stated: get returns an entry only within its TTL; a
\* get issued when every entry held for the key is past the TTL returns
\* absent and leaves the key in neither tier.
C2_Expiry ==
    \A c \in Calls :
        calls[c].getOutcome \notin {"none", "pending"} =>
            /\ calls[c].getOutcome = "hit" => calls[c].getFresh
            /\ calls[c].getStale =>
                  (calls[c].getOutcome = "miss" /\ calls[c].getEvicted)

MemoryHolds(C, url, entry) ==
    IF SizeOf(entry.spec) > MaxCacheSize THEN url \notin DOMAIN C.mem
    ELSE url \in DOMAIN C.mem /\ C.mem[url].value = entry

DiskHolds(C, url, entry) ==
    /\ DiskPath(url) \in DOMAIN C.disk
    /\ C.disk[DiskPath(url)] = Gzip(JsonStringify(entry))

BothFetched ==
    /\ \A c \in Calls :
          /\ calls[c].pc = "done" /\ ~calls[c].force /\ calls[c].url = "u1"
          /\ calls[c].getOutcome = "miss" /\ calls[c].nreq >= 1
          /\ calls[c].stored # NoEntry
    /\ \E c \in Calls : calls[c].first = {}

\* The storedAt value a tier holds for a URL, as a set of at most one.
MemoryStoredAt(C, url) ==
    IF url \in DOMAIN C.mem THEN {C.mem[url].value.timestamp} ELSE {}

DiskStoredAt(C, url) ==
    IF DiskPath(url) \in DOMAIN C.disk /\ C.disk[DiskPath(url)].gz
    THEN {JsonParse(C.disk[DiskPath(url)].data).timestamp} ELSE {}

\* C26 (storedAt is non-decreasing), as stated: no step replaces the
\* record a tier holds for a key by one with a smaller storedAt, in the
\* memory tier and in the durable tier, overlapping set calls included.
C26_StoredAtNonDecreasing ==
    [][\A url \in URLs :
          /\ \A old \in MemoryStoredAt(cache, url), new \in MemoryStoredAt(cache', url) :
                old <= new
          /\ \A old \in DiskStoredAt(cache, url), new \in DiskStoredAt(cache', url) :
                old <= new]_vars

\* C34 (the tiers agree after concurrent writes), as stated: when two
\* overlapping calls that both wrote the key have completed, the memory
\* tier and the durable tier hold the same entry, the one of the call
\* whose set started last.
C34_TiersAgree ==
    BothFetched =>
        \E c \in Calls :
            /\ \A b \in Calls : calls[b].stored.timestamp <= calls[c].stored.timestamp
            /\ MemoryHolds(cache, "u1", calls[c].stored)
            /\ DiskHolds(cache, "u1", calls[c].stored)

====
